---------------------------- MODULE Spec2Model ----------------------------
(***************************************************************************)
(* The request scheduler and worker pool of guidellm                       *)
(* (src/guidellm/scheduler/scheduler.py): Scheduler.__init__, the          *)
(* producer/consumer loop of Scheduler.run, the bounded requests queue,    *)
(* the responses queue and the sync and async worker processes; and the    *)
(* streaming backend (src/guidellm/backend/aiohttp.py): the loop of        *)
(* AiohttpBackend.make_request over the lines of a streamed response.      *)
(***************************************************************************)
EXTENDS Integers, Sequences, FiniteSets, TLC

(***************************************************************************)
(* Bounds of the model.                                                    *)
(***************************************************************************)
\* the longest request loader (number of requests it can supply) of the runs
\* with one sync worker process
MaxLoader == 3
\* the longest request loader of the runs with several workers or async workers
MaxParallelLoader == 2
\* the largest max_number given to the Scheduler
MaxNumber == 2
\* the last instant of the discrete wall clock, counted from the start of the run
MaxTime == 3
\* the largest max_duration given to the Scheduler
MaxDuration == 2
\* the longest request loader of the runs with a duration limit
MaxTimedLoader == 2

\* the most lines in the body of an HTTP response
MaxLines == 3
\* the largest usage.completion_tokens a chunk reports
MaxUsage == 3

\* largest max_output_tokens of a _completions_payload call
MaxOutputTokens == 2

\* most lines of a dataset file
MaxFileLines == 3

\* most create_item calls followed
MaxItems == 5

(***************************************************************************)
(* Values.                                                                 *)
(***************************************************************************)
\* math.inf, larger than every count and instant of the model
Inf == 1000

\* -math.inf, the target time of the strategies that dispatch at once
NegInf == 0 - Inf

\* Python's None for an optional number
None == 0 - 1

\* the sentinel of a SchedulerRequestInfo field that is not set yet
Unset == 0 - 1

Min(a, b) == IF a <= b THEN a ELSE b

Max(a, b) == IF a >= b THEN a ELSE b

\* the most requests a recorded run creates
MaxRequests == Max(MaxLoader, Max(MaxParallelLoader, MaxTimedLoader))

(***************************************************************************)
(* Scheduling strategies (guidellm/scheduler/strategy.py): the execution   *)
(* shape each declares and its request_times().                            *)
(***************************************************************************)
SynchronousStrategy ==
    [type_ |-> "synchronous", processing_mode |-> "sync", processes_limit |-> 1,
     processing_requests_limit |-> 1, queued_requests_limit |-> None,
     interval |-> 0]

ConcurrentStrategy(streams) ==
    [type_ |-> "concurrent", processing_mode |-> "sync", processes_limit |-> streams,
     processing_requests_limit |-> streams, queued_requests_limit |-> None,
     interval |-> 0]

ThroughputStrategy ==
    [type_ |-> "throughput", processing_mode |-> "async", processes_limit |-> None,
     processing_requests_limit |-> None, queued_requests_limit |-> None,
     interval |-> 0]

\* one request every `interval` instants (interval = 1 / rate)
AsyncConstantStrategy(interval) ==
    [type_ |-> "constant", processing_mode |-> "async", processes_limit |-> None,
     processing_requests_limit |-> None, queued_requests_limit |-> None,
     interval |-> interval]

\* the k-th (0-based) timestamp of strategy.request_times(), whose first call
\* was made at instant t0
RequestTime(strategy, t0, k) ==
    IF strategy.type_ = "constant" THEN t0 + k * strategy.interval ELSE NegInf

(***************************************************************************)
(* Request loaders: a list of `size` requests (it has a len()), a          *)
(* generator of `size` requests (it has none), or an endless generator     *)
(* that repeats one request.                                               *)
(***************************************************************************)
ListLoader(size) == [kind |-> "list", size |-> size]

GeneratorLoader(size) == [kind |-> "generator", size |-> size]

RepeatLoader == [kind |-> "repeat", size |-> Inf]

\* the k-th (1-based) request of the loader
LoaderItem(loader, k) == IF loader.kind = "repeat" THEN 0 ELSE k

\* LoaderAdvance drawing one request more than is used
LoaderAdvanceDropping(loader, drawn) ==
    IF loader.kind = "repeat" THEN drawn ELSE drawn + 2

\* the state of the loader's iterator after one more next(): the number of
\* requests drawn (the endless generator has no state)
LoaderAdvance(loader, drawn) == IF loader.kind = "repeat" THEN drawn ELSE drawn + 1

\* the state of request_times() after one more next(): the number of times
\* drawn (a constant stream has no state)
TimesAdvance(strategy, k) == IF strategy.type_ = "constant" THEN k + 1 ELSE k

VARIABLES
    cfg,              \* the Scheduler's constructor arguments and the settings
    now,              \* time.time()
    spc,              \* where Scheduler.run is
    requests_iter,    \* number of requests drawn from the loader, None once dropped
    times_iter,       \* [t0, k]: first-call instant and number of times drawn
    run_info,         \* SchedulerRunInfo
    queue_max,        \* maxsize of the requests queue
    requests_queue,   \* envelopes and stop signals, oldest first
    responses_queue,  \* _WorkerProcessResponse messages, oldest first
    wpc,              \* per worker process: poll, acquire, returned
    held,             \* per async worker: the envelope it holds while awaiting a permit
    pending,          \* per async worker: free permits of its semaphore, None if it has none
    tasks,            \* per worker: its running _worker_schedule_request calls
    events,           \* per request: the request events yielded for it, oldest first
    run_events,       \* the run_start / run_complete events yielded, oldest first
    dequeued,         \* the requests taken from the requests queue, oldest first
    stops_sent,       \* number of stop signals put on the requests queue
    post_response,    \* the response of make_request's session.post: status and lines
    mpc,              \* where AiohttpBackend.make_request is
    line_no,          \* number of lines of the response's content read
    total_usage,      \* make_request's running total of output tokens
    yielded,          \* the GenerativeResponse events make_request yielded, oldest first
    bpc,              \* where Benchmarker.run is
    profile,          \* the Profile: its strategy types and the number completed
    current_index,    \* Benchmarker.run's current_index
    scheduler_run,    \* the results scheduler.run has still to yield, and how it ends
    outer,            \* the BenchmarkerResult events yielded, oldest first
    calls,            \* the results received from scheduler.run and the calls made on
                      \* the profile and the aggregators, oldest first
    warnings,         \* the messages the scheduler has given to logger.warning
    completions_call, \* one _completions_payload call: the backend and the arguments
    payload,          \* the dict that call returned, not given while it has not
    file_lines,       \* the lines of the dataset file of a FileRequestGenerator
    generator,        \* the FileRequestGenerator: where it is, _data and _iterator
    items             \* the requests create_item returned, oldest first

vars == <<cfg, now, spc, requests_iter, times_iter, run_info, queue_max,
          requests_queue, responses_queue, wpc, held, pending, tasks,
          events, run_events, dequeued, stops_sent,
          post_response, mpc, line_no, total_usage, yielded,
          bpc, profile, current_index, scheduler_run, outer, calls, warnings,
          completions_call, payload, file_lines, generator, items>>

benchmarker_vars == <<bpc, profile, current_index, scheduler_run, outer, calls>>

single_vars == <<completions_call, payload>>

request_vars == <<file_lines, generator, items>>

\* the scheduler, its worker processes and the streaming backend
scheduler_backend_vars ==
    <<cfg, now, spc, requests_iter, times_iter, run_info, queue_max,
      requests_queue, responses_queue, wpc, held, pending, tasks,
      events, run_events, dequeued, stops_sent,
      post_response, mpc, line_no, total_usage, yielded, warnings>>

\* everything Benchmarker.run leaves alone
scheduler_side == <<scheduler_backend_vars, single_vars, request_vars>>

backend_vars == <<post_response, mpc, line_no, total_usage, yielded>>

sched_vars == <<spc, requests_iter, times_iter, run_info>>

worker_vars == <<wpc, held, pending, tasks>>

history_vars == <<events, run_events, dequeued>>


(***************************************************************************)
(* Scheduler._start_processes and Scheduler._run_setup.                    *)
(***************************************************************************)
\* number of worker processes
NumProcesses(c) ==
    IF c.strategy.processes_limit # None
    THEN c.strategy.processes_limit
    ELSE Min(Max(1, c.cpu_count - 1), c.max_worker_processes)

\* total number of requests that may be processed at once
NumProcessingRequests(c) ==
    IF c.strategy.processing_requests_limit # None
    THEN c.strategy.processing_requests_limit
    ELSE c.max_concurrency

\* max_concurrency handed to each async worker process
NumProcessingRequestsPerProcess(c) ==
    NumProcessingRequests(c) \div NumProcesses(c)

\* NumQueuedRequests without the slot of headroom per worker process
NumQueuedRequestsNoHeadroom(c) ==
    IF c.strategy.queued_requests_limit # None
    THEN c.strategy.queued_requests_limit
    ELSE NumProcessingRequests(c)

\* maxsize of the requests queue
NumQueuedRequests(c) ==
    IF c.strategy.queued_requests_limit # None
    THEN c.strategy.queued_requests_limit
    ELSE NumProcessingRequests(c) + NumProcesses(c)

\* asyncio.Semaphore(max_concurrency) if max_concurrency else None
NewSemaphore(max_concurrency) ==
    IF max_concurrency # 0 /\ max_concurrency # None THEN max_concurrency ELSE None

\* end_time = time.time() + (max_duration or math.inf)
EndTime(c, t) ==
    IF c.max_duration = None \/ c.max_duration = 0 THEN Inf ELSE t + c.max_duration

\* EndNumber without the look at the length of the request loader
EndNumberUncapped(c) ==
    IF c.max_number = None \/ c.max_number = 0 THEN Inf ELSE c.max_number

\* end_number = max_number or math.inf, lowered to len(request_loader) if it has one
EndNumber(c) ==
    LET n == IF c.max_number = None \/ c.max_number = 0 THEN Inf ELSE c.max_number
    IN  IF c.request_loader.kind = "list"
           /\ 0 < c.request_loader.size /\ c.request_loader.size < n
        THEN c.request_loader.size
        ELSE n

\* the test before the warning: end_number == math.inf and end_time is None
WarnsNoEnd(end_number, end_time) == end_number = Inf /\ end_time = None

Processes == DOMAIN wpc

NoRunInfo ==
    [start_time |-> 0, end_time |-> 0, end_number |-> 0, processes |-> 0,
     created_requests |-> 0, queued_requests |-> 0, scheduled_requests |-> 0,
     processing_requests |-> 0, completed_requests |-> 0]

\* run(), up to the run_start event: the workers are started, the run is set up
RunStart ==
    /\ spc = "init"
    /\ LET n == NumProcesses(cfg)
           ids == 0 .. (n - 1)
       IN  /\ queue_max' = NumQueuedRequests(cfg)
           /\ wpc' = [p \in ids |-> "poll"]
           /\ held' = [p \in ids |-> <<>>]
           /\ tasks' = [p \in ids |-> <<>>]
           /\ pending' = [p \in ids |->
                            IF cfg.strategy.processing_mode = "async"
                            THEN NewSemaphore(NumProcessingRequestsPerProcess(cfg))
                            ELSE None]
           /\ run_info' = [start_time |-> now, end_time |-> EndTime(cfg, now),
                           end_number |-> EndNumber(cfg), processes |-> n,
                           created_requests |-> 0, queued_requests |-> 0,
                           scheduled_requests |-> 0, processing_requests |-> 0,
                           completed_requests |-> 0]
    /\ requests_iter' = 0
    /\ times_iter' = [t0 |-> None, k |-> 0]
    /\ warnings' = IF WarnsNoEnd(EndNumber(cfg), EndTime(cfg, now))
                   THEN Append(warnings, "No end number or end time set")
                   ELSE warnings
    /\ run_events' = Append(run_events, "run_start")
    /\ spc' = "produce"
    /\ UNCHANGED <<backend_vars, benchmarker_vars, single_vars, request_vars,
                   cfg, now, requests_queue, responses_queue, events,
                   dequeued, stops_sent>>

(***************************************************************************)
(* The loop of Scheduler.run.                                              *)
(***************************************************************************)
\* whether the events of the run are recorded per request
Recording == cfg.request_loader.kind # "repeat"

Envelope(request, start_time, timeout_time, queued_time) ==
    [stop |-> FALSE, request |-> request, start_time |-> start_time,
     timeout_time |-> timeout_time, queued_time |-> queued_time]

\* the None put on the requests queue for each worker at shutdown
StopSignal ==
    [stop |-> TRUE, request |-> 0, start_time |-> 0, timeout_time |-> 0,
     queued_time |-> 0]

\* Put that adds the item at the head of the queue
PutFirst(queue, item) == <<item>> \o queue

\* requests_queue.put(item)
Put(queue, item) == Append(queue, item)

\* LoopDone without the test that every created request has completed
LoopDoneWhenExhausted == requests_iter = None

\* LimitReached without the test of the request time against end_time
LimitReachedByCount(request_time) ==
    run_info.queued_requests >= run_info.end_number

\* LoopDone testing the requests queue in place of the completed count
LoopDoneWhenDrained == requests_iter = None /\ requests_queue = <<>>

\* the loop's exit test: nothing left to create and every response yielded
LoopDone ==
    requests_iter = None /\ run_info.completed_requests >= run_info.created_requests

\* the producer's limit test on the next request time
LimitReached(request_time) ==
    \/ run_info.queued_requests >= run_info.end_number
    \/ request_time >= run_info.end_time

\* SchedBreak without the loop's exit test
SchedBreakEarly ==
    /\ spc = "produce"
    /\ spc' = "stopping"
    /\ run_events' = Append(run_events, "run_complete")
    /\ UNCHANGED <<backend_vars, benchmarker_vars, single_vars, request_vars,
                   warnings, cfg, now, requests_iter, times_iter, run_info,
                   queue_max, requests_queue, responses_queue, worker_vars,
                   events, dequeued, stops_sent>>

\* the break of the loop, and the run_complete event after it
SchedBreak ==
    /\ spc = "produce"
    /\ LoopDone
    /\ spc' = "stopping"
    /\ run_events' = Append(run_events, "run_complete")
    /\ UNCHANGED <<backend_vars, benchmarker_vars, single_vars, request_vars,
                   warnings, cfg, now, requests_iter, times_iter, run_info,
                   queue_max, requests_queue, responses_queue, worker_vars,
                   events, dequeued, stops_sent>>

\* one pass of the producer half of the loop
SchedProduce ==
    /\ spc = "produce"
    /\ ~LoopDone
    /\ spc' = "poll"
    /\ IF requests_iter # None /\ Len(requests_queue) < queue_max
       THEN LET t0 == IF times_iter.t0 = None THEN now ELSE times_iter.t0
                request_time == RequestTime(cfg.strategy, t0, times_iter.k)
            IN  /\ times_iter' = [t0 |-> t0,
                                  k |-> TimesAdvance(cfg.strategy, times_iter.k)]
                /\ IF LimitReached(request_time)
                      \/ requests_iter >= cfg.request_loader.size
                   THEN /\ requests_iter' = None
                        /\ UNCHANGED <<run_info, requests_queue>>
                   ELSE /\ requests_iter' =
                             LoaderAdvance(cfg.request_loader, requests_iter)
                        /\ requests_queue' =
                             Put(requests_queue,
                                 Envelope(LoaderItem(cfg.request_loader,
                                                     requests_iter + 1),
                                          request_time, run_info.end_time, now))
                        /\ run_info' =
                             [run_info EXCEPT !.created_requests = @ + 1,
                                              !.queued_requests = @ + 1]
       ELSE UNCHANGED <<requests_iter, times_iter, run_info, requests_queue>>
    /\ UNCHANGED <<backend_vars, benchmarker_vars, single_vars, request_vars,
                   warnings, cfg, now, queue_max, responses_queue,
                   worker_vars, history_vars, stops_sent>>

\* Transfer with the request_start transfer leaving scheduled_requests alone
TransferKeepsScheduled(info, type_) ==
    CASE type_ = "request_scheduled" ->
           [info EXCEPT !.queued_requests = @ - 1, !.scheduled_requests = @ + 1]
      [] type_ = "request_start" ->
           [info EXCEPT !.processing_requests = @ + 1]
      [] type_ = "request_complete" ->
           [info EXCEPT !.processing_requests = @ - 1, !.completed_requests = @ + 1]

\* Transfer with the request_complete transfer leaving processing_requests alone
TransferKeepsProcessing(info, type_) ==
    CASE type_ = "request_scheduled" ->
           [info EXCEPT !.queued_requests = @ - 1, !.scheduled_requests = @ + 1]
      [] type_ = "request_start" ->
           [info EXCEPT !.scheduled_requests = @ - 1, !.processing_requests = @ + 1]
      [] type_ = "request_complete" ->
           [info EXCEPT !.completed_requests = @ + 1]

\* Transfer with the request_start transfer taken out of queued_requests
TransferStartFromQueued(info, type_) ==
    CASE type_ = "request_scheduled" ->
           [info EXCEPT !.queued_requests = @ - 1, !.scheduled_requests = @ + 1]
      [] type_ = "request_start" ->
           [info EXCEPT !.queued_requests = @ - 1, !.processing_requests = @ + 1]
      [] type_ = "request_complete" ->
           [info EXCEPT !.processing_requests = @ - 1, !.completed_requests = @ + 1]

\* the counter transfer of one response
Transfer(info, type_) ==
    CASE type_ = "request_scheduled" ->
           [info EXCEPT !.queued_requests = @ - 1, !.scheduled_requests = @ + 1]
      [] type_ = "request_start" ->
           [info EXCEPT !.scheduled_requests = @ - 1, !.processing_requests = @ + 1]
      [] type_ = "request_complete" ->
           [info EXCEPT !.processing_requests = @ - 1, !.completed_requests = @ + 1]

\* The counters as the model stores them. LiveSpec follows runs of any length:
\* there created_requests and completed_requests are kept less the number of
\* completed requests, which leaves every test the loop makes on them
\* (completed_requests >= created_requests) as it is.
Stored(info) ==
    IF cfg.relative
    THEN [info EXCEPT !.created_requests = @ - info.completed_requests,
                      !.completed_requests = 0]
    ELSE info

\* one pass of the consumer half of the loop: responses_queue.get_nowait()
SchedPoll ==
    /\ spc = "poll"
    /\ spc' = "produce"
    /\ IF responses_queue = <<>>
       THEN UNCHANGED <<responses_queue, run_info, events>>
       ELSE LET m == Head(responses_queue)
            IN  /\ responses_queue' = Tail(responses_queue)
                /\ run_info' = Stored(Transfer(run_info, m.type_))
                /\ events' = IF Recording
                             THEN [events EXCEPT ![m.request] =
                                     Append(@, [type_ |-> m.type_, info |-> m.info])]
                             ELSE events
    /\ UNCHANGED <<backend_vars, benchmarker_vars, single_vars, request_vars,
                   warnings, cfg, now, requests_iter, times_iter, queue_max,
                   requests_queue, worker_vars, run_events, dequeued,
                   stops_sent>>

\* _stop_processes: one requests_queue.put(None)
SchedStop ==
    /\ spc = "stopping"
    /\ stops_sent < run_info.processes
    /\ Len(requests_queue) < queue_max
    /\ requests_queue' = Put(requests_queue, StopSignal)
    /\ stops_sent' = stops_sent + 1
    /\ UNCHANGED <<backend_vars, benchmarker_vars, single_vars, request_vars,
                   warnings, cfg, now, sched_vars, queue_max, responses_queue,
                   worker_vars, history_vars>>

\* an exception in the loop, or the consumer closing the generator at a yield:
\* control leaves the body of the with statement
Abort ==
    /\ \/ spc \in {"produce", "poll"}
       \/ spc = "stopping" /\ stops_sent = 0
    /\ spc' = "unwind"
    /\ UNCHANGED <<backend_vars, benchmarker_vars, single_vars, request_vars,
                   warnings, cfg, now, requests_iter, times_iter, run_info,
                   queue_max, requests_queue, responses_queue, worker_vars,
                   history_vars, stops_sent>>

\* SchedReturn without the wait for the worker processes
SchedReturnAtOnce ==
    /\ \/ spc = "stopping" /\ stops_sent = run_info.processes
       \/ spc = "unwind"
    /\ spc' = "returned"
    /\ UNCHANGED <<backend_vars, benchmarker_vars, single_vars, request_vars,
                   warnings, cfg, now, requests_iter, times_iter, run_info,
                   queue_max, requests_queue, responses_queue, worker_vars,
                   history_vars, stops_sent>>

\* asyncio.gather(*futures), or the executor's shutdown when the with statement
\* is left: run() is over once every worker process has returned
SchedReturn ==
    /\ \/ spc = "stopping" /\ stops_sent = run_info.processes
       \/ spc = "unwind"
    /\ \A p \in Processes : wpc[p] \in {"returned", "crashed"}
    /\ spc' = "returned"
    /\ UNCHANGED <<backend_vars, benchmarker_vars, single_vars, request_vars,
                   warnings, cfg, now, requests_iter, times_iter, run_info,
                   queue_max, requests_queue, responses_queue, worker_vars,
                   history_vars, stops_sent>>

(***************************************************************************)
(* The worker processes: _worker_process_sync, _worker_process_async and   *)
(* _worker_schedule_request.                                               *)
(***************************************************************************)
RemoveAt(seq, i) == SubSeq(seq, 1, i - 1) \o SubSeq(seq, i + 1, Len(seq))

\* a call of _worker_schedule_request that has not run yet
NewTask(env) ==
    [env |-> env, stage |-> "new",
     info |-> [targeted_start_time |-> Unset, queued_time |-> Unset,
               scheduled_time |-> Unset, worker_start |-> Unset,
               worker_end |-> Unset, process_id |-> Unset]]

Response(type_, request, response, info) ==
    [type_ |-> type_, request |-> request, response |-> response, info |-> info]

\* the envelope a worker takes with requests_queue.get_nowait()
NextEnvelope(queue) == Head(queue)

\* the requests queue after that get
AfterGet(queue) == Tail(queue)

\* whether the worker may create the task at once: it has no semaphore, or
\* holds a free permit
CanAcquire(p) == pending[p] = None \/ pending[p] > 0

\* Acquired taking no permit from the semaphore
AcquiredNoPermit(sem) == sem

\* the semaphore after acquire()
Acquired(sem) == IF sem = None THEN None ELSE sem - 1

\* the semaphore after the task's done callback
Released(sem) == IF sem = None THEN None ELSE sem + 1

\* RunnerFree for a sync runner that polls while its request is in progress
RunnerFreeAlways(p) == TRUE

\* whether the runner of worker p is at its get_nowait(): a sync runner awaits
\* the _worker_schedule_request call of the request it took, an async runner
\* creates a task for it and goes on
RunnerFree(p) == cfg.strategy.processing_mode = "sync" => tasks[p] = <<>>

\* requests_queue.get_nowait() of worker p found something
WorkerGet(p) ==
    /\ wpc[p] = "poll"
    /\ requests_queue # <<>>
    /\ RunnerFree(p)
    /\ LET env == NextEnvelope(requests_queue)
       IN  /\ requests_queue' = AfterGet(requests_queue)
           /\ IF env.stop
              THEN \* the stop signal: the runner returns, asyncio.run cancels
                   \* whatever tasks are left
                   /\ wpc' = [wpc EXCEPT ![p] = "returned"]
                   /\ tasks' = [tasks EXCEPT ![p] = <<>>]
                   /\ UNCHANGED <<held, pending, dequeued>>
              ELSE /\ dequeued' = IF Recording
                                  THEN Append(dequeued, env.request)
                                  ELSE dequeued
                   /\ IF CanAcquire(p)
                      THEN /\ pending' = [pending EXCEPT ![p] = Acquired(@)]
                           /\ tasks' = [tasks EXCEPT ![p] = Append(@, NewTask(env))]
                           /\ UNCHANGED <<wpc, held>>
                      ELSE /\ wpc' = [wpc EXCEPT ![p] = "acquire"]
                           /\ held' = [held EXCEPT ![p] = <<env>>]
                           /\ UNCHANGED <<pending, tasks>>
    /\ UNCHANGED <<backend_vars, benchmarker_vars, single_vars, request_vars,
                   warnings, cfg, now, sched_vars, queue_max, responses_queue,
                   events, run_events, stops_sent>>

\* pending.acquire() of worker p returns: the envelope it holds becomes a task
WorkerAcquire(p) ==
    /\ wpc[p] = "acquire"
    /\ pending[p] > 0
    /\ pending' = [pending EXCEPT ![p] = Acquired(@)]
    /\ tasks' = [tasks EXCEPT ![p] = Append(@, NewTask(held[p][1]))]
    /\ held' = [held EXCEPT ![p] = <<>>]
    /\ wpc' = [wpc EXCEPT ![p] = "poll"]
    /\ UNCHANGED <<backend_vars, benchmarker_vars, single_vars, request_vars,
                   warnings, cfg, now, sched_vars, queue_max, requests_queue,
                   responses_queue, history_vars, stops_sent>>

\* _worker_schedule_request, up to the request_scheduled response
TaskScheduled(p, i) ==
    /\ i \in DOMAIN tasks[p]
    /\ tasks[p][i].stage = "new"
    /\ LET t == tasks[p][i]
           info == [targeted_start_time |-> t.env.start_time,
                    queued_time |-> t.env.queued_time,
                    scheduled_time |-> now, worker_start |-> Unset,
                    worker_end |-> Unset, process_id |-> p]
       IN  /\ tasks' = [tasks EXCEPT ![p][i] =
                          [t EXCEPT !.stage = "scheduled", !.info = info]]
           /\ responses_queue' =
                Append(responses_queue,
                       Response("request_scheduled", t.env.request, None, info))
    /\ UNCHANGED <<backend_vars, benchmarker_vars, single_vars, request_vars,
                   warnings, cfg, now, sched_vars, queue_max, requests_queue,
                   wpc, held, pending, history_vars, stops_sent>>

\* WaitOver for a task that never waits
WaitOverAtOnce(start_time) == TRUE

\* whether the wait for the target start time is over
WaitOver(start_time) == start_time - now <= 0

\* _worker_schedule_request, from the wait for the start time to the
\* request_start response
TaskStart(p, i) ==
    /\ i \in DOMAIN tasks[p]
    /\ tasks[p][i].stage = "scheduled"
    /\ WaitOver(tasks[p][i].env.start_time)
    /\ LET t == tasks[p][i]
           info == [t.info EXCEPT !.worker_start = now]
       IN  /\ tasks' = [tasks EXCEPT ![p][i] =
                          [t EXCEPT !.stage = "resolving", !.info = info]]
           /\ responses_queue' =
                Append(responses_queue,
                       Response("request_start", t.env.request, None, info))
    /\ UNCHANGED <<backend_vars, benchmarker_vars, single_vars, request_vars,
                   warnings, cfg, now, sched_vars, queue_max, requests_queue,
                   wpc, held, pending, history_vars, stops_sent>>

\* TaskComplete writing worker_start again along with worker_end
TaskCompleteRestamped(p, i) ==
    /\ i \in DOMAIN tasks[p]
    /\ tasks[p][i].stage = "resolving"
    /\ LET t == tasks[p][i]
           info == [t.info EXCEPT !.worker_start = now, !.worker_end = now]
       IN  /\ tasks' = [tasks EXCEPT ![p] = RemoveAt(@, i)]
           /\ responses_queue' =
                Append(responses_queue,
                       Response("request_complete", t.env.request, 1, info))
    /\ pending' = [pending EXCEPT ![p] = Released(@)]
    /\ UNCHANGED <<backend_vars, benchmarker_vars, single_vars, request_vars,
                   warnings, cfg, now, sched_vars, queue_max, requests_queue,
                   wpc, held, history_vars, stops_sent>>

\* TaskComplete putting the request_complete response twice
TaskCompleteTwice(p, i) ==
    /\ i \in DOMAIN tasks[p]
    /\ tasks[p][i].stage = "resolving"
    /\ LET t == tasks[p][i]
           info == [t.info EXCEPT !.worker_end = now]
           m == Response("request_complete", t.env.request, 1, info)
       IN  /\ tasks' = [tasks EXCEPT ![p] = RemoveAt(@, i)]
           /\ responses_queue' = Append(Append(responses_queue, m), m)
    /\ pending' = [pending EXCEPT ![p] = Released(@)]
    /\ UNCHANGED <<backend_vars, benchmarker_vars, single_vars, request_vars,
                   warnings, cfg, now, sched_vars, queue_max, requests_queue,
                   wpc, held, history_vars, stops_sent>>

\* worker.resolve returns: the request_complete response, the end of the task
\* and the release of its permit
TaskComplete(p, i) ==
    /\ i \in DOMAIN tasks[p]
    /\ tasks[p][i].stage = "resolving"
    /\ LET t == tasks[p][i]
           info == [t.info EXCEPT !.worker_end = now]
       IN  /\ tasks' = [tasks EXCEPT ![p] = RemoveAt(@, i)]
           /\ responses_queue' =
                Append(responses_queue,
                       Response("request_complete", t.env.request, 1, info))
    /\ pending' = [pending EXCEPT ![p] = Released(@)]
    /\ UNCHANGED <<backend_vars, benchmarker_vars, single_vars, request_vars,
                   warnings, cfg, now, sched_vars, queue_max, requests_queue,
                   wpc, held, history_vars, stops_sent>>

\* the runner of worker p aborts with an exception (a queue operation or
\* worker.resolve raises): asyncio.run cancels its tasks, the exception is
\* logged and the process function returns
WorkerCrash(p) ==
    /\ spc \in {"produce", "poll"}
    /\ wpc[p] \in {"poll", "acquire"}
    /\ wpc' = [wpc EXCEPT ![p] = "crashed"]
    /\ tasks' = [tasks EXCEPT ![p] = <<>>]
    /\ held' = [held EXCEPT ![p] = <<>>]
    /\ UNCHANGED <<backend_vars, benchmarker_vars, single_vars, request_vars,
                   warnings, cfg, now, sched_vars, queue_max, requests_queue,
                   responses_queue, pending, history_vars, stops_sent>>

\* the wall clock advances
Tick ==
    /\ spc # "init"
    /\ now < MaxTime
    /\ now' = now + 1
    /\ UNCHANGED <<backend_vars, benchmarker_vars, single_vars, request_vars,
                   warnings, cfg, sched_vars, queue_max, requests_queue,
                   responses_queue, worker_vars, history_vars, stops_sent>>

(***************************************************************************)
(* AiohttpBackend.make_request (guidellm/backend/aiohttp.py): the status   *)
(* check and the loop over the lines of the streamed response.             *)
(***************************************************************************)
\* a line that is empty once stripped
BlankLine ==
    [kind |-> "blank", text |-> "", usage |-> "missing", completion_tokens |-> None]

\* the line "data: [DONE]"
DoneLine ==
    [kind |-> "done", text |-> "", usage |-> "missing", completion_tokens |-> None]

\* a line "data: {...}" with choices[0].delta.content = text; its usage key is
\* "missing", "null" or an "object", whose completion_tokens is None if absent
Chunk(text, usage, completion_tokens) ==
    [kind |-> "json", text |-> text, usage |-> usage,
     completion_tokens |-> completion_tokens]

\* whether deepget(message, "usage", "completion_tokens") raises: indexing the
\* None of a null usage is a TypeError, which deepget does not catch
DeepGetRaises(message) == message.usage = "null"

\* deepget(message, "usage", "completion_tokens"), None when a key is missing
DeepGet(message) ==
    IF message.usage = "object" THEN message.completion_tokens ELSE None

\* token['count'] of a chunk
TokenCount(current_usage, total) ==
    IF current_usage # None THEN current_usage - total ELSE 1

GenerativeResponse(type_, add_token, output_token_count) ==
    [type_ |-> type_, add_token |-> add_token,
     output_token_count |-> output_token_count]

\* TokenIters that yields one event for the whole chunk
TokenItersOnce(text, total, count) ==
    <<GenerativeResponse("token_iter", text, total + count)>>

\* the token_iter events of a chunk of `count` tokens
TokenIters(text, total, count) ==
    [k \in 1 .. count |-> GenerativeResponse("token_iter", text, total + k)]

\* TotalAfter that follows the usage of an omitted chunk too
TotalAfterResync(total, count) == total + count

\* total_usage after a chunk of `count` tokens: an omitted chunk leaves it
TotalAfter(total, count) == IF count < 1 THEN total ELSE total + count

\* whether the pass of the loop for this line raises
LineRaises(line) == line.kind = "json" /\ DeepGetRaises(line)

\* the events the pass of the loop for this line yields
LineEvents(line, total) ==
    CASE line.kind = "blank" -> <<>>
      [] line.kind = "done" -> <<GenerativeResponse("final", "", total)>>
      [] line.kind = "json" ->
           LET count == TokenCount(DeepGet(line), total)
           IN  IF count < 1 THEN <<>> ELSE TokenIters(line.text, total, count)

\* total_usage after the pass of the loop for this line
LineTotal(line, total) ==
    IF line.kind = "json"
    THEN TotalAfter(total, TokenCount(DeepGet(line), total))
    ELSE total

RECURSIVE StreamFrom(_, _, _)
\* the loop over response.content from line i on, entered with the running
\* total `total`: the events it yields and the total it ends with
StreamFrom(content, i, total) ==
    IF i > Len(content) \/ LineRaises(content[i])
    THEN [events |-> <<>>, total |-> total]
    ELSE LET rest == StreamFrom(content, i + 1, LineTotal(content[i], total))
         IN  [events |-> LineEvents(content[i], total) \o rest.events,
              total |-> rest.total]

\* session.post(...) answered: the test of the status
MakeRequestPost ==
    /\ mpc = "post"
    /\ IF post_response.status # 200
       THEN mpc' = "raised" /\ UNCHANGED total_usage
       ELSE mpc' = "stream" /\ total_usage' = 0
    /\ UNCHANGED <<post_response, line_no, yielded>>
    /\ UNCHANGED <<benchmarker_vars, single_vars, request_vars, warnings, cfg,
                   now, sched_vars, queue_max, requests_queue,
                   responses_queue, worker_vars, history_vars, stops_sent>>

\* one pass of the loop over response.content
MakeRequestLine ==
    /\ mpc = "stream"
    /\ line_no < Len(post_response.content)
    /\ LET line == post_response.content[line_no + 1]
       IN  IF LineRaises(line)
           THEN /\ mpc' = "raised"
                /\ UNCHANGED <<line_no, total_usage, yielded>>
           ELSE /\ line_no' = line_no + 1
                /\ yielded' = yielded \o LineEvents(line, total_usage)
                /\ total_usage' = LineTotal(line, total_usage)
                /\ UNCHANGED mpc
    /\ UNCHANGED <<post_response, benchmarker_vars, single_vars, request_vars,
                   warnings, cfg, now, sched_vars, queue_max, requests_queue,
                   responses_queue, worker_vars, history_vars, stops_sent>>

\* response.content is exhausted: the generator returns
MakeRequestReturn ==
    /\ mpc = "stream"
    /\ line_no = Len(post_response.content)
    /\ mpc' = "returned"
    /\ UNCHANGED <<post_response, line_no, total_usage, yielded>>
    /\ UNCHANGED <<benchmarker_vars, single_vars, request_vars, warnings, cfg,
                   now, sched_vars, queue_max, requests_queue,
                   responses_queue, worker_vars, history_vars, stops_sent>>

(***************************************************************************)
(* OpenAISingleHTTPBackend._completions_payload (backend/openai_single.py). *)
(* A dict is a function from PayloadKeys to integers; Absent marks a key    *)
(* the dict does not have.                                                  *)
(***************************************************************************)
PayloadKeys ==
    {"model", "max_tokens", "max_completion_tokens", "stop", "ignore_eos", "prompt"}

\* the value of a key that is not in the dict
Absent == 0 - 2

\* True, as the value of ignore_eos
PyTrue == 1

\* False, as the value of ignore_eos
PyFalse == 0

\* self.model, and another model named in a body or in keyword arguments
BackendModel == 1

OtherModel == 2

\* a list of stop words, as the value of stop
StopWords == 1

\* the text of the request, as the value of prompt
Prompt == 1

\* {}
EmptyDict == [k \in PayloadKeys |-> Absent]

\* None passed for an Optional[dict]
NoDict == [given |-> FALSE, dict |-> EmptyDict]

\* a dict passed for an Optional[dict]
Dict(d) == [given |-> TRUE, dict |-> d]

\* d[key] = value
With(d, key, value) == [d EXCEPT ![key] = value]

\* d.update(e)
Update(d, e) == [k \in PayloadKeys |-> IF e[k] # Absent THEN e[k] ELSE d[k]]

\* arg or {}: None and the empty dict both give an empty dict
OrEmpty(arg) == IF arg.given /\ arg.dict # EmptyDict THEN arg.dict ELSE EmptyDict

\* the truth value of an Optional[int]
Truthy(n) == n # None /\ n # 0

\* a or b
Or(a, b) == IF Truthy(a) THEN a ELSE b

\* the payload before the token limit is looked at: body, orig_kwargs and
\* kwargs merged in that order, then model
PayloadBase(self, body, orig_kwargs, kwargs) ==
    With(Update(Update(OrEmpty(body), OrEmpty(orig_kwargs)), kwargs),
         "model", self.model)

\* CompletionsPayload that sets stop and ignore_eos for the instance-level
\* limit as well
CompletionsPayloadForcing(self, body, orig_kwargs, max_output_tokens, kwargs) ==
    LET base == PayloadBase(self, body, orig_kwargs, kwargs)
        n == Or(max_output_tokens, self.max_output_tokens)
    IN  IF Truthy(max_output_tokens) \/ Truthy(self.max_output_tokens)
        THEN With(With(With(With(base, "max_tokens", n),
                            "max_completion_tokens", n),
                       "stop", None),
                  "ignore_eos", PyTrue)
        ELSE base

\* _completions_payload(body, orig_kwargs, max_output_tokens, **kwargs)
CompletionsPayload(self, body, orig_kwargs, max_output_tokens, kwargs) ==
    LET base == PayloadBase(self, body, orig_kwargs, kwargs)
        n == Or(max_output_tokens, self.max_output_tokens)
        limited == With(With(base, "max_tokens", n), "max_completion_tokens", n)
    IN  IF Truthy(max_output_tokens) \/ Truthy(self.max_output_tokens)
        THEN IF Truthy(max_output_tokens)
             THEN With(With(limited, "stop", None), "ignore_eos", PyTrue)
             ELSE limited
        ELSE base

\* a call of _completions_payload: the backend it is made on, its arguments,
\* and the caller's body dict as the call leaves it
CompletionsCall(self, body, orig_kwargs, max_output_tokens, kwargs) ==
    [self |-> self, body |-> body, orig_kwargs |-> orig_kwargs,
     max_output_tokens |-> max_output_tokens, kwargs |-> kwargs,
     body_after |-> body]

\* no call is under way
NoCompletionsCall ==
    CompletionsCall([model |-> None, max_output_tokens |-> None],
                    NoDict, NoDict, None, EmptyDict)

SingleBackendIdle ==
    /\ completions_call = NoCompletionsCall
    /\ payload = NoDict

\* the call runs to its return.  payload = body or {} makes a body that is
\* not empty the payload itself, so the caller's dict is updated along with it
CompletionsPayloadReturn ==
    /\ completions_call # NoCompletionsCall
    /\ ~payload.given
    /\ LET c == completions_call
           result == CompletionsPayload(c.self, c.body, c.orig_kwargs,
                                        c.max_output_tokens, c.kwargs)
       IN  /\ payload' = Dict(result)
           /\ completions_call' =
                [c EXCEPT !.body_after =
                    IF c.body.given /\ c.body.dict # EmptyDict
                    THEN Dict(result) ELSE c.body]
    /\ UNCHANGED <<scheduler_backend_vars, benchmarker_vars, request_vars>>

(***************************************************************************)
(* FileRequestGenerator (request/file.py): the constructor, that loads the *)
(* dataset file, __len__ and create_item.                                   *)
(***************************************************************************)
\* a JSON number, whole or with a fraction, or a string that is no number,
\* as the value of tok_input_length and tok_output_length
WholeNumber(n) == [kind |-> "int", n |-> n, fraction |-> FALSE]

FractionalNumber(n) == [kind |-> "float", n |-> n, fraction |-> TRUE]

NotANumber == [kind |-> "str", n |-> 0, fraction |-> FALSE]

\* int(value) raises ValueError
IntRaises(value) == value.kind = "str"

\* int(value): the whole part
IntOf(value) == value.n

\* a line of the file: text that is no JSON (a blank line is one), JSON that
\* is no object, or a JSON object; question is the position of the line in
\* the file, index is Absent if the object has no such key
NotJsonLine(question) ==
    [kind |-> "not_json", question |-> question, index |-> Absent,
     tok_input_length |-> NotANumber, tok_output_length |-> NotANumber]

NotObjectLine(question) ==
    [kind |-> "not_object", question |-> question, index |-> Absent,
     tok_input_length |-> NotANumber, tok_output_length |-> NotANumber]

ObjectLine(question, index, tok_input_length, tok_output_length) ==
    [kind |-> "object", question |-> question, index |-> index,
     tok_input_length |-> tok_input_length,
     tok_output_length |-> tok_output_length]

\* json.loads(line.strip()) raises JSONDecodeError
JsonRaises(line) == line.kind = "not_json"

\* the second try block raises KeyError: the token counts are read first, so
\* a count that int() rejects is reached before the missing key
KeyRaises(line) ==
    /\ line.kind = "object"
    /\ ~IntRaises(line.tok_input_length)
    /\ ~IntRaises(line.tok_output_length)
    /\ line.index = Absent

\* the second try block raises something it does not catch: TypeError from
\* subscripting what is no object, ValueError from int()
LoadRaises(line) ==
    /\ ~JsonRaises(line)
    /\ \/ line.kind = "not_object"
       \/ IntRaises(line.tok_input_length)
       \/ IntRaises(line.tok_output_length)

\* input_data of a line
InputData(line) ==
    [text |-> line.question, input_id |-> line.index,
     input_tokens |-> IntOf(line.tok_input_length),
     output_tokens |-> IntOf(line.tok_output_length)]

\* readlines() itself, in place of readlines()[1:]
AllLines(lines) == lines

\* readlines()[1:]
AfterFirstLine(lines) == SubSeq(lines, 2, Len(lines))

\* the loop over the lines from the i-th on, data being self._data so far
RECURSIVE LoadFrom(_, _, _)
LoadFrom(lines, i, data) ==
    IF i > Len(lines) THEN [raises |-> FALSE, data |-> data]
    ELSE IF JsonRaises(lines[i]) \/ KeyRaises(lines[i])
         THEN LoadFrom(lines, i + 1, data)
    ELSE IF LoadRaises(lines[i]) THEN [raises |-> TRUE, data |-> data]
    ELSE LoadFrom(lines, i + 1, Append(data, InputData(lines[i])))

\* the FileRequestGenerator object: where it is, path, _data, and _iterator
\* as the number of entries it has handed out
FileGenerator(pc, path, data, iterator) ==
    [pc |-> pc, path |-> path, data |-> data, iterator |-> iterator]

FileGeneratorIdle ==
    /\ file_lines = <<>>
    /\ generator = FileGenerator("idle", "", <<>>, 0)
    /\ items = <<>>

\* FileRequestGenerator(path)
FileConstruct ==
    /\ generator.pc = "new"
    /\ IF generator.path = ""
       THEN generator' = [generator EXCEPT !.pc = "raised"]
       ELSE LET loaded == LoadFrom(AfterFirstLine(file_lines), 1, <<>>)
            IN  generator' =
                  IF loaded.raises
                  THEN [generator EXCEPT !.pc = "raised", !.data = loaded.data]
                  ELSE [generator EXCEPT !.pc = "ready", !.data = loaded.data,
                                         !.iterator = 0]
    /\ UNCHANGED <<scheduler_backend_vars, benchmarker_vars, single_vars,
                   file_lines, items>>

\* TextGenerationRequest(prompt, prompt_token_count, output_token_count)
TextGenerationRequest(data) ==
    [prompt |-> data.text, prompt_token_count |-> data.input_tokens,
     output_token_count |-> data.output_tokens]

\* IteratorAfterNext that stays on the last entry
IteratorAfterNextSticking(data, iterator) ==
    IF iterator < Len(data) THEN iterator + 1 ELSE iterator

\* _iterator after the next() that create_item gets its entry from: a fresh
\* iterator over _data takes the place of an exhausted one
IteratorAfterNext(data, iterator) ==
    IF iterator < Len(data) THEN iterator + 1 ELSE 1

\* create_item(); with no entry at all the second next() raises StopIteration
CreateItem ==
    /\ generator.pc = "ready"
    /\ Len(items) < MaxItems
    /\ IF generator.data = <<>>
       THEN /\ generator' = [generator EXCEPT !.pc = "stop_iteration"]
            /\ UNCHANGED items
       ELSE LET iterator == IteratorAfterNext(generator.data, generator.iterator)
            IN  /\ generator' = [generator EXCEPT !.iterator = iterator]
                /\ items' = Append(items,
                                   TextGenerationRequest(generator.data[iterator]))
    /\ UNCHANGED <<scheduler_backend_vars, benchmarker_vars, single_vars,
                   file_lines>>

(***************************************************************************)
(* The runs checked.                                                       *)
(***************************************************************************)
Config(strategy, max_number, max_duration, loader, cpu_count, max_concurrency) ==
    [strategy |-> strategy, max_number |-> max_number,
     max_duration |-> max_duration, request_loader |-> loader,
     cpu_count |-> cpu_count, max_worker_processes |-> 2,
     max_concurrency |-> max_concurrency, num_processes |-> None,
     relative |-> FALSE]

\* the same Scheduler constructed with num_processes given
WithNumProcesses(c, num_processes) == [c EXCEPT !.num_processes = num_processes]

(***************************************************************************)
(* Scheduler.__init__.                                                     *)
(***************************************************************************)
\* self._scheduling_strategy before __init__ has assigned it
NoStrategy ==
    [type_ |-> "none", processing_mode |-> "none", processes_limit |-> None,
     processing_requests_limit |-> None, queued_requests_limit |-> None,
     interval |-> 0]

\* a scheduling_strategy argument that is a string
StrategyName(name) == [isa |-> "str", name |-> name, strategy |-> NoStrategy]

\* a scheduling_strategy argument that is a SchedulingStrategy instance
StrategyInstance(strategy) ==
    [isa |-> "SchedulingStrategy", name |-> "", strategy |-> strategy]

\* a scheduling_strategy argument that is neither
StrategyOther == [isa |-> "other", name |-> "", strategy |-> NoStrategy]

\* a request_loader argument that is not an Iterable
NotIterable == [kind |-> "not_iterable", size |-> 0]

\* the arguments of a Scheduler(...) call whose __init__ has not run yet
SchedulerArgs(worker, request_loader, scheduling_strategy, max_number) ==
    [worker |-> worker, scheduling_strategy |-> scheduling_strategy,
     strategy |-> NoStrategy, max_number |-> max_number, max_duration |-> None,
     request_loader |-> request_loader, cpu_count |-> 2,
     max_worker_processes |-> 2, max_concurrency |-> 1, num_processes |-> None,
     relative |-> FALSE]

\* ResolveStrategy that leaves the strings as they are
ResolveStrategyKeep(arg) == arg

\* the replacement of the strings "synchronous" and "throughput"
ResolveStrategy(arg) ==
    IF arg.isa = "str" /\ arg.name = "synchronous"
    THEN StrategyInstance(SynchronousStrategy)
    ELSE IF arg.isa = "str" /\ arg.name = "throughput"
         THEN StrategyInstance(ThroughputStrategy)
         ELSE arg

\* whether __init__ raises ValueError for these arguments
InitRaises(args) ==
    \/ args.worker # "RequestsWorker"
    \/ args.request_loader.kind = "not_iterable"
    \/ ResolveStrategy(args.scheduling_strategy).isa # "SchedulingStrategy"

\* Scheduler.__init__: the checks of the arguments, then the assignments
Construct ==
    /\ spc = "new"
    /\ IF InitRaises(cfg)
       THEN /\ spc' = "error"
            /\ cfg' = cfg
       ELSE /\ spc' = "init"
            /\ cfg' = [cfg EXCEPT !.strategy =
                          ResolveStrategy(cfg.scheduling_strategy).strategy]
    /\ UNCHANGED <<backend_vars, benchmarker_vars, single_vars, request_vars,
                   warnings, now, requests_iter, times_iter, run_info,
                   queue_max, requests_queue, responses_queue, worker_vars,
                   history_vars, stops_sent>>

Loaders(size) ==
    {ListLoader(n) : n \in 0 .. size} \cup {GeneratorLoader(size)}

MaxNumbers == {None} \cup (1 .. MaxNumber)

\* the settings (cpu_count, max_concurrency) of the async runs: one process
\* or two, with a total limit of one or two requests in flight
AsyncSettings == {<<2, 1>>, <<2, 2>>, <<3, 1>>, <<3, 2>>}

\* runs without a duration limit, on a clock that stands still
Configs ==
    {Config(SynchronousStrategy, n, None, l, 2, 1) :
        n \in MaxNumbers, l \in Loaders(MaxLoader)}
    \cup
    {Config(ConcurrentStrategy(2), n, None, l, 2, 1) :
        n \in {None, 1}, l \in Loaders(MaxParallelLoader)}
    \cup
    {Config(ThroughputStrategy, n, None, l, cm[1], cm[2]) :
        n \in {None, 1}, l \in Loaders(MaxParallelLoader), cm \in AsyncSettings}

\* no make_request call is under way
BackendIdle ==
    /\ post_response = [status |-> 0, content |-> <<>>]
    /\ mpc = "idle"
    /\ line_no = 0
    /\ total_usage = 0
    /\ yielded = <<>>

\* a Scheduler that has not run yet
SchedulerNew(configs) ==
    /\ cfg \in configs
    /\ now = 0
    /\ spc = "init"
    /\ requests_iter = 0
    /\ times_iter = [t0 |-> None, k |-> 0]
    /\ run_info = NoRunInfo
    /\ queue_max = 0
    /\ requests_queue = <<>>
    /\ responses_queue = <<>>
    /\ wpc = <<>>
    /\ held = <<>>
    /\ pending = <<>>
    /\ tasks = <<>>
    /\ events = [r \in 1 .. MaxRequests |-> <<>>]
    /\ run_events = <<>>
    /\ dequeued = <<>>
    /\ stops_sent = 0
    /\ warnings = <<>>

\* no scheduler.run call is under way
NoSchedulerRun == [scheduling_strategy |-> "none", results |-> <<>>, raises |-> FALSE]

\* no Benchmarker.run call is under way
BenchmarkerIdle ==
    /\ bpc = "idle"
    /\ profile = [strategy_types |-> <<>>, completed_strategies |-> 0]
    /\ current_index = 0 - 1
    /\ scheduler_run = NoSchedulerRun
    /\ outer = <<>>
    /\ calls = <<>>

OthersIdle == SingleBackendIdle /\ FileGeneratorIdle

InitWith(configs) ==
    SchedulerNew(configs) /\ BackendIdle /\ BenchmarkerIdle /\ OthersIdle

Init == InitWith(Configs)

\* the steps of Scheduler.run and of the worker processes
RunNext ==
    \/ RunStart
    \/ SchedBreak
    \/ SchedProduce
    \/ SchedPoll
    \/ SchedStop
    \/ SchedReturn
    \/ \E p \in Processes : WorkerGet(p)
    \/ \E p \in Processes : WorkerAcquire(p)
    \/ \E p \in Processes : \E i \in DOMAIN tasks[p] : TaskScheduled(p, i)
    \/ \E p \in Processes : \E i \in DOMAIN tasks[p] : TaskStart(p, i)
    \/ \E p \in Processes : \E i \in DOMAIN tasks[p] : TaskComplete(p, i)

Next == RunNext \/ Abort

Spec == Init /\ [][Next]_vars

\* Scheduler(...) calls with valid and invalid arguments, each followed by
\* the run of the scheduler it built
ConstructArgs ==
    {SchedulerArgs(w, l, a, n) :
        w \in {"RequestsWorker", "other"},
        l \in {ListLoader(MaxParallelLoader), GeneratorLoader(1), NotIterable},
        a \in {StrategyName("synchronous"), StrategyName("throughput"),
               StrategyName("concurrent"), StrategyInstance(ConcurrentStrategy(2)),
               StrategyOther},
        n \in {None, 1}}

ConstructInit ==
    /\ BackendIdle
    /\ BenchmarkerIdle
    /\ OthersIdle
    /\ cfg \in ConstructArgs
    /\ now = 0
    /\ spc = "new"
    /\ requests_iter = 0
    /\ times_iter = [t0 |-> None, k |-> 0]
    /\ run_info = NoRunInfo
    /\ queue_max = 0
    /\ requests_queue = <<>>
    /\ responses_queue = <<>>
    /\ wpc = <<>>
    /\ held = <<>>
    /\ pending = <<>>
    /\ tasks = <<>>
    /\ events = [r \in 1 .. MaxRequests |-> <<>>]
    /\ run_events = <<>>
    /\ dequeued = <<>>
    /\ stops_sent = 0
    /\ warnings = <<>>

ConstructNext == Construct \/ RunNext

ConstructSpec == ConstructInit /\ [][ConstructNext]_vars

\* the lines a streamed response is made of
Lines ==
    {BlankLine, DoneLine}
    \cup {Chunk(t, "missing", None) : t \in {"a", "b"}}
    \cup {Chunk(t, "object", c) : t \in {"a", "b"}, c \in 0 .. MaxUsage}
    \cup {Chunk("a", "object", None), Chunk("a", "null", None)}

\* the responses of the server: a status and up to MaxLines lines
Responses ==
    {[status |-> st, content |-> c] :
        st \in {200, 204, 500},
        c \in UNION {[1 .. n -> Lines] : n \in 0 .. MaxLines}}

\* the backends a _completions_payload call is made on
SingleBackends ==
    {[model |-> BackendModel, max_output_tokens |-> n] :
        n \in {None} \cup (0 .. MaxOutputTokens)}

\* the bodies passed: none, an empty one, one that names a model, one with a
\* token limit of its own, one with stop words and ignore_eos off
Bodies ==
    {NoDict, Dict(EmptyDict),
     Dict(With(EmptyDict, "model", OtherModel)),
     Dict(With(EmptyDict, "max_tokens", MaxOutputTokens + 1)),
     Dict(With(With(With(EmptyDict, "model", OtherModel), "stop", StopWords),
               "ignore_eos", PyFalse))}

\* the keyword arguments of the request passed on
OrigKwargs == {NoDict, Dict(With(EmptyDict, "model", OtherModel))}

\* **kwargs: the prompt, alone or with stop words
Kwargs ==
    {With(EmptyDict, "prompt", Prompt),
     With(With(EmptyDict, "prompt", Prompt), "stop", StopWords)}

CompletionsCalls ==
    {CompletionsCall(self, body, orig_kwargs, max_output_tokens, kwargs) :
        self \in SingleBackends, body \in Bodies, orig_kwargs \in OrigKwargs,
        max_output_tokens \in {None} \cup (0 .. MaxOutputTokens),
        kwargs \in Kwargs}

\* one _completions_payload call
PayloadInit ==
    /\ SchedulerNew({Config(SynchronousStrategy, None, None, ListLoader(0), 2, 1)})
    /\ BackendIdle
    /\ BenchmarkerIdle
    /\ FileGeneratorIdle
    /\ completions_call \in CompletionsCalls
    /\ payload = NoDict

PayloadNext == CompletionsPayloadReturn

PayloadSpec == PayloadInit /\ [][PayloadNext]_vars

\* the shapes of a line of the file
LineShapes == {"not_json", "not_object", "no_index", "not_a_number", "whole",
               "fractional"}

\* the line of that shape at position i of the file
Line(shape, i) ==
    CASE shape = "not_json" -> NotJsonLine(i)
      [] shape = "not_object" -> NotObjectLine(i)
      [] shape = "no_index" ->
           ObjectLine(i, Absent, WholeNumber(i), WholeNumber(i))
      [] shape = "not_a_number" ->
           ObjectLine(i, i, WholeNumber(i), NotANumber)
      [] shape = "whole" -> ObjectLine(i, i, WholeNumber(i), WholeNumber(i))
      [] shape = "fractional" ->
           ObjectLine(i, i, FractionalNumber(i), WholeNumber(i))

\* the dataset files of up to MaxFileLines lines
Files ==
    UNION {{[i \in 1 .. n |-> Line(shapes[i], i)] : shapes \in [1 .. n -> LineShapes]} :
              n \in 0 .. MaxFileLines}

\* a FileRequestGenerator about to be constructed, on a file or without a path
FileInit ==
    /\ SchedulerNew({Config(SynchronousStrategy, None, None, ListLoader(0), 2, 1)})
    /\ BackendIdle
    /\ BenchmarkerIdle
    /\ SingleBackendIdle
    /\ \/ /\ file_lines \in Files
          /\ generator = FileGenerator("new", "dataset.jsonl", <<>>, 0)
       \/ /\ file_lines = <<>>
          /\ generator = FileGenerator("new", "", <<>>, 0)
    /\ items = <<>>

FileNext == FileConstruct \/ CreateItem

FileSpec == FileInit /\ [][FileNext]_vars

\* one make_request call, from the answer to its POST on
BackendInit ==
    /\ SchedulerNew({Config(SynchronousStrategy, None, None, ListLoader(0), 2, 1)})
    /\ BenchmarkerIdle
    /\ OthersIdle
    /\ post_response \in Responses
    /\ mpc = "post"
    /\ line_no = 0
    /\ total_usage = 0
    /\ yielded = <<>>

BackendNext == MakeRequestPost \/ MakeRequestLine \/ MakeRequestReturn

BackendSpec == BackendInit /\ [][BackendNext]_vars

\* runs with a duration limit, on a clock that advances: a strategy that
\* dispatches at once and a constant-rate strategy with one async worker, on
\* two requests, and the longest loader under the shortest duration
TimedConfigs ==
    {Config(s, None, d, GeneratorLoader(2), 2, 1) :
        s \in {SynchronousStrategy, AsyncConstantStrategy(1)},
        d \in 1 .. MaxDuration}
    \cup
    {Config(SynchronousStrategy, None, 1, GeneratorLoader(MaxTimedLoader), 2, 1)}

TimedInit == InitWith(TimedConfigs)

TimedNext == RunNext \/ Tick

TimedSpec == TimedInit /\ [][TimedNext]_vars

\* runs of the sync strategies on a clock that advances: one worker process,
\* and two of them with one request for each
SyncConfigs ==
    {Config(SynchronousStrategy, None, None,
            GeneratorLoader(MaxParallelLoader), 2, 1),
     Config(ConcurrentStrategy(2), None, None, GeneratorLoader(2), 2, 1)}

SyncInit == InitWith(SyncConfigs)

\* the steps of Scheduler.run and of the sync worker processes, whose runner
\* has no semaphore to acquire
SyncNext ==
    \/ RunStart
    \/ SchedBreak
    \/ SchedProduce
    \/ SchedPoll
    \/ SchedStop
    \/ SchedReturn
    \/ \E p \in Processes : WorkerGet(p)
    \/ \E p \in Processes : \E i \in DOMAIN tasks[p] : TaskScheduled(p, i)
    \/ \E p \in Processes : \E i \in DOMAIN tasks[p] : TaskStart(p, i)
    \/ \E p \in Processes : \E i \in DOMAIN tasks[p] : TaskComplete(p, i)
    \/ Tick

SyncSpec == SyncInit /\ [][SyncNext]_vars

\* a Synchronous strategy that declares the size of the requests queue
SynchronousQueued(limit) ==
    [SynchronousStrategy EXCEPT !.queued_requests_limit = limit]

\* runs of any length: max_number set, no duration limit, an endless loader,
\* with requests queues smaller than, equal to and larger than max_number
LiveConfigs ==
    {[Config(s, n, None, RepeatLoader, 2, 1) EXCEPT !.relative = TRUE] :
        s \in {SynchronousQueued(1), SynchronousStrategy, ThroughputStrategy},
        n \in 1 .. MaxNumber}

LiveInit == InitWith(LiveConfigs)

SchedulerStep ==
    RunStart \/ SchedBreak \/ SchedProduce \/ SchedPoll \/ SchedStop \/ SchedReturn

\* the scheduler's loop keeps running, every worker keeps polling and every
\* task, worker.resolve included, goes on
LiveFairness ==
    /\ WF_vars(SchedulerStep)
    /\ \A p \in 0 .. 1 :
          /\ WF_vars(p \in Processes /\ WorkerGet(p))
          /\ WF_vars(p \in Processes /\ WorkerAcquire(p))
          /\ WF_vars(p \in Processes
                     /\ \E i \in DOMAIN tasks[p] : TaskScheduled(p, i))
          /\ WF_vars(p \in Processes
                     /\ \E i \in DOMAIN tasks[p] : TaskStart(p, i))
          /\ WF_vars(p \in Processes
                     /\ \E i \in DOMAIN tasks[p] : TaskComplete(p, i))

LiveSpec == LiveInit /\ [][RunNext]_vars /\ LiveFairness

\* runs in which the runner of a worker process may abort: one sync worker,
\* two sync workers and one async worker with one permit
CrashConfigs ==
    {Config(SynchronousStrategy, None, None, ListLoader(MaxParallelLoader), 2, 1),
     Config(ConcurrentStrategy(2), None, None, ListLoader(MaxParallelLoader), 2, 1),
     Config(ThroughputStrategy, None, None, GeneratorLoader(MaxParallelLoader),
            2, 1)}

CrashInit == InitWith(CrashConfigs)

CrashNext == RunNext \/ \E p \in Processes : WorkerCrash(p)

\* the scheduler and the workers that have not aborted keep running
CrashSpec == CrashInit /\ [][CrashNext]_vars /\ LiveFairness

(***************************************************************************)
(* Properties of the event stream and the counters.                        *)
(***************************************************************************)
RunCompleteEmitted ==
    \E i \in DOMAIN run_events : run_events[i] = "run_complete"

\* the types of the events yielded for request r, oldest first
EventTypes(r) == [i \in DOMAIN events[r] |-> events[r][i].type_]

RequestLifecycle == <<"request_scheduled", "request_start", "request_complete">>

IsPrefix(s, t) == Len(s) <= Len(t) /\ SubSeq(t, 1, Len(s)) = s

\* whether a request_complete event has been yielded for request r
HasComplete(r) ==
    \E i \in DOMAIN events[r] : events[r][i].type_ = "request_complete"

\* number of request_complete events yielded
CompleteEvents ==
    Cardinality({r \in DOMAIN events :
                   \E i \in DOMAIN events[r] : events[r][i].type_ = "request_complete"})

\* the tasks of the pool that are inside worker.resolve
Resolving ==
    {pi \in {<<p, i>> : p \in Processes, i \in 1 .. MaxRequests} :
        /\ pi[2] \in DOMAIN tasks[pi[1]]
        /\ tasks[pi[1]][pi[2]].stage = "resolving"}

\* C1: in every state of the run the counters satisfy
\* created == queued + scheduled + processing + completed.
C1_CounterInvariant ==
    run_info.created_requests =
        run_info.queued_requests + run_info.scheduled_requests
        + run_info.processing_requests + run_info.completed_requests

\* C1 witness: a run with requests in three of the four classes at once
C1_Witness ==
    /\ run_info.queued_requests >= 1
    /\ run_info.processing_requests >= 1
    /\ run_info.completed_requests >= 1

\* the runs C2 is about: max_number set, no max_duration, a loader that can
\* supply max_number requests
CountLimited ==
    /\ cfg.max_number # None
    /\ cfg.max_duration = None
    /\ cfg.request_loader.size >= cfg.max_number

\* C2: with max_number = N and a loader that can supply N requests, exactly N
\* requests are created and exactly N request_complete events are emitted.
C2_ExactlyMaxNumber ==
    CountLimited =>
        /\ run_info.created_requests <= cfg.max_number
        /\ RunCompleteEmitted =>
              /\ run_info.created_requests = cfg.max_number
              /\ CompleteEvents = cfg.max_number

\* C3: the events of every request are request_scheduled, request_start and
\* request_complete, once each and in that order; when the run completes every
\* created request has had all three.
C3_LifecycleOrder ==
    /\ \A r \in DOMAIN events : IsPrefix(EventTypes(r), RequestLifecycle)
    /\ RunCompleteEmitted =>
          \A r \in 1 .. run_info.created_requests : EventTypes(r) = RequestLifecycle

\* C3 witness: a completed run of two requests, each with its three events
C3_Witness ==
    /\ RunCompleteEmitted
    /\ run_info.created_requests >= 2
    /\ \A r \in 1 .. 2 : EventTypes(r) = RequestLifecycle

\* C4: when run_complete is emitted, completed == created and
\* queued == scheduled == processing == 0.
C4_FinalCounters ==
    RunCompleteEmitted =>
        /\ run_info.completed_requests = run_info.created_requests
        /\ run_info.queued_requests = 0
        /\ run_info.scheduled_requests = 0
        /\ run_info.processing_requests = 0

\* C4 witness: run_complete emitted after two requests
C4_Witness == RunCompleteEmitted /\ run_info.created_requests >= 2

\* C5: in async mode the number of requests being processed, in the pool and
\* in the processing_requests counter, is at most the total in-flight limit.
C5_InFlightCap ==
    (spc # "init" /\ cfg.strategy.processing_mode = "async") =>
        /\ Cardinality(Resolving) <= NumProcessingRequests(cfg)
        /\ run_info.processing_requests <= NumProcessingRequests(cfg)

\* C9: on every exit path of run(), every worker process has been sent a stop
\* signal once control has left the run, and has returned when run() returns.
C9_WorkersStoppedOnEveryExit ==
    /\ spc \in {"unwind", "returned"} => stops_sent = run_info.processes
    /\ spc = "returned" => \A p \in Processes : wpc[p] = "returned"

\* C10: the requests are taken from the requests queue in the order the
\* producer put them there.
C10_FifoDequeue ==
    \A i \in DOMAIN dequeued : dequeued[i] = i

\* C10 witness: two requests taken, by two different workers
C10_Witness ==
    /\ Len(dequeued) >= 2
    /\ \E p, q \in Processes : p # q /\ tasks[p] # <<>> /\ tasks[q] # <<>>

\* the run events in the order a run yields them
RunLifecycle == <<"run_start", "run_complete">>

\* the run events and the request events yielded so far fit one stream
StreamShape ==
    /\ IsPrefix(run_events, RunLifecycle)
    /\ run_events = <<>> => \A r \in DOMAIN events : events[r] = <<>>
    /\ RunCompleteEmitted =>
          \A r \in 1 .. run_info.created_requests : HasComplete(r)

\* a step yields a request event only between run_start and run_complete, and
\* yields nothing after run_complete
StreamStep ==
    /\ events' # events =>
          (run_events = <<"run_start">> /\ run_events' = run_events)
    /\ RunCompleteEmitted => (events' = events /\ run_events' = run_events)

\* C15: the stream starts with one run_start and has at most one
\* run_complete, after which nothing is yielded; every request event is
\* yielded after run_start and before run_complete, and run_complete is
\* yielded only when every created request has had its request_complete.
C15_EventStreamShape == []StreamShape /\ [][StreamStep]_vars

\* C15 witness: a run that returned after run_start, the events of two
\* requests and run_complete
C15_Witness ==
    /\ spc = "returned"
    /\ run_events = RunLifecycle
    /\ HasComplete(1) /\ HasComplete(2)

\* number of stop signals on the requests queue
StopsQueued ==
    Cardinality({i \in DOMAIN requests_queue : requests_queue[i].stop})

\* number of worker processes that took a stop signal and returned
WorkersReturned == Cardinality({p \in Processes : wpc[p] = "returned"})

\* C16: stop signals are put only after run_complete, one per worker process
\* and on a queue that holds no request; every stop signal put is either
\* still queued or was taken by one worker that returned on it, and run()
\* returns only when every worker has taken its own and returned.
C16_OneStopPerWorker ==
    /\ stops_sent <= run_info.processes
    /\ stops_sent > 0 =>
          /\ RunCompleteEmitted
          /\ \A i \in DOMAIN requests_queue : requests_queue[i].stop
    /\ StopsQueued + WorkersReturned = stops_sent
    /\ spc = "returned" =>
          /\ stops_sent = run_info.processes
          /\ \A p \in Processes : wpc[p] = "returned" /\ tasks[p] = <<>>
          /\ requests_queue = <<>>

\* C16 witness: run() returned after stopping two worker processes
C16_Witness ==
    /\ spc = "returned"
    /\ run_info.processes = 2
    /\ WorkersReturned = 2

\* C17: when an error in the loop makes control leave run(), run_complete
\* has been yielded before.
C17_RaisesAfterRunComplete == spc = "unwind" => RunCompleteEmitted

(***************************************************************************)
(* Properties of Scheduler.__init__ (ConstructSpec).                       *)
(***************************************************************************)
\* whether no queue and no worker process has been created
NothingCreated ==
    /\ wpc = <<>> /\ queue_max = 0
    /\ requests_queue = <<>> /\ responses_queue = <<>>
    /\ run_events = <<>>

\* C18: __init__ fails exactly for a worker that is not a RequestsWorker, a
\* request_loader that is not iterable or a scheduling_strategy that is
\* neither "synchronous", "throughput" nor a SchedulingStrategy instance, with
\* no queue or worker process created then or later; otherwise the scheduler
\* holds the strategy named by the string, or the instance given.
C18_ConstructorValidation ==
    LET a == cfg.scheduling_strategy
        named == a.isa = "str" /\ a.name \in {"synchronous", "throughput"}
        valid == /\ cfg.worker = "RequestsWorker"
                 /\ cfg.request_loader.kind # "not_iterable"
                 /\ named \/ a.isa = "SchedulingStrategy"
    IN  /\ spc = "new" => NothingCreated
        /\ spc = "error" => ~valid /\ NothingCreated
        /\ spc \notin {"new", "error"} =>
              /\ valid
              /\ a.isa = "SchedulingStrategy" => cfg.strategy = a.strategy
              /\ (a.isa = "str" /\ a.name = "synchronous") =>
                    cfg.strategy = SynchronousStrategy
              /\ (a.isa = "str" /\ a.name = "throughput") =>
                    cfg.strategy = ThroughputStrategy

\* C18 witness: a scheduler built from the string "throughput" that ran its
\* requests to the end
C18_Witness ==
    /\ cfg.scheduling_strategy = StrategyName("throughput")
    /\ spc = "returned"
    /\ run_info.completed_requests >= 1

\* C18 witness of the failure: __init__ raised for an unknown strategy name
C18_WitnessError ==
    /\ spc = "error"
    /\ cfg.worker = "RequestsWorker"
    /\ cfg.scheduling_strategy = StrategyName("concurrent")

(***************************************************************************)
(* Properties of the runs with a duration limit (TimedSpec).               *)
(***************************************************************************)
\* the request_start events yielded so far
StartEvents ==
    {e \in UNION {{events[r][i] : i \in DOMAIN events[r]} : r \in DOMAIN events} :
        e.type_ = "request_start"}

\* C6, as claimed: with max_duration set, no request_start event has a
\* worker_start later than end_time.
C6_NoStartAfterEndTime ==
    \A e \in StartEvents : e.info.worker_start <= run_info.end_time

\* C6, amended: with max_duration set, every request_start event is for a
\* request whose target start time is earlier than end_time.
C6_TargetBeforeEndTime ==
    \A e \in StartEvents : e.info.targeted_start_time < run_info.end_time

\* C6 witness: a request with a target time of its own, started after end_time
C6_Witness ==
    \E e \in StartEvents :
        /\ e.info.targeted_start_time >= 0
        /\ e.info.worker_start > run_info.end_time

\* C8: with max_duration set, no request is created once the wall clock has
\* passed end_time.
C8_NoCreationAfterEndTime ==
    \A i \in DOMAIN requests_queue :
        ~requests_queue[i].stop =>
            requests_queue[i].queued_time <= run_info.end_time

\* the timing fields of a SchedulerRequestInfo
TimingFields ==
    {"targeted_start_time", "queued_time", "scheduled_time", "worker_start",
     "worker_end"}

\* the request_complete events yielded so far
RequestCompleteEvents ==
    {e \in UNION {{events[r][i] : i \in DOMAIN events[r]} : r \in DOMAIN events} :
        e.type_ = "request_complete"}

\* C12: a timing field of a request that has left the sentinel -1 has the same
\* value in every later event of that request, and in the request_complete
\* event queued_time <= scheduled_time <= worker_start <= worker_end.
C12_LedgerWrittenOnce ==
    /\ \A r \in DOMAIN events : \A i, j \in DOMAIN events[r] :
          i < j =>
            \A f \in TimingFields :
                events[r][i].info[f] # Unset =>
                    events[r][j].info[f] = events[r][i].info[f]
    /\ \A e \in RequestCompleteEvents :
          /\ e.info.queued_time <= e.info.scheduled_time
          /\ e.info.scheduled_time <= e.info.worker_start
          /\ e.info.worker_start <= e.info.worker_end

\* C12 witness: a completed request whose four instants all differ
C12_Witness ==
    \E e \in RequestCompleteEvents :
        /\ e.info.queued_time < e.info.scheduled_time
        /\ e.info.scheduled_time < e.info.worker_start
        /\ e.info.worker_start < e.info.worker_end

\* the tasks of worker p that have put request_scheduled and not request_start
ScheduledTasks(p) == {i \in DOMAIN tasks[p] : tasks[p][i].stage = "scheduled"}

\* C13: no request_start event of a request with a finite target start time
\* has a worker_start earlier than the target; a task whose target is -inf or
\* not later than the clock can put request_start at once.
C13_NoStartBeforeTarget ==
    /\ \A e \in StartEvents :
          e.info.targeted_start_time # NegInf =>
              e.info.worker_start >= e.info.targeted_start_time
    /\ \A p \in Processes : \A i \in ScheduledTasks(p) :
          tasks[p][i].env.start_time <= now => ENABLED TaskStart(p, i)

\* C13 witness: a request scheduled before its target time and started at it
C13_Witness ==
    \E e \in StartEvents :
        /\ e.info.scheduled_time < e.info.targeted_start_time
        /\ e.info.worker_start = e.info.targeted_start_time

\* C14: in sync mode a worker process has at most one request between its
\* dequeue and its request_complete; with the Synchronous strategy the
\* requests complete in the order they were enqueued and a request starts
\* no earlier than the end of every request enqueued before it.
C14_SyncOneAtATime ==
    /\ cfg.strategy.processing_mode = "sync" =>
          \A p \in Processes : Len(tasks[p]) <= 1
    /\ cfg.strategy.type_ = "synchronous" =>
          \A r, s \in DOMAIN events :
              r < s =>
                /\ HasComplete(s) => HasComplete(r)
                /\ events[s] # <<>> => HasComplete(r)
                /\ \A i \in DOMAIN events[r], j \in DOMAIN events[s] :
                      (/\ events[r][i].type_ = "request_complete"
                       /\ events[s][j].type_ = "request_start")
                      => events[r][i].info.worker_end
                             <= events[s][j].info.worker_start

\* C14 witness: two requests completed by the one worker of a Synchronous
\* run, the second started after the first had started
C14_Witness ==
    /\ cfg.strategy.type_ = "synchronous"
    /\ HasComplete(1) /\ HasComplete(2)
    /\ \E i \in DOMAIN events[1], j \in DOMAIN events[2] :
          /\ events[1][i].type_ = "request_complete"
          /\ events[2][j].type_ = "request_complete"
          /\ events[1][i].info.worker_start < events[1][i].info.worker_end
          /\ events[1][i].info.worker_end < events[2][j].info.worker_start

(***************************************************************************)
(* Termination of the runs with a count limit (LiveSpec).                  *)
(***************************************************************************)
\* C7: with max_number set and an endless loader, the run eventually stops
\* creating requests and emits run_complete.
C7_EventuallyRunComplete == <>(requests_iter = None /\ RunCompleteEmitted)

(***************************************************************************)
(* Runs in which a worker process aborts (CrashSpec).                      *)
(***************************************************************************)
Crashed == \E p \in Processes : wpc[p] = "crashed"

\* C11: once the runner of a worker process has aborted during the run, the
\* scheduler eventually emits run_complete and run() returns.
C11_CrashLeadsToReturn == Crashed ~> (RunCompleteEmitted /\ spc = "returned")

(***************************************************************************)
(* Properties of the streaming backend (BackendSpec).                      *)
(***************************************************************************)
\* number of token_iter events among the first n events yielded
ItersBefore(n) ==
    Cardinality({j \in 1 .. (n - 1) : yielded[j].type_ = "token_iter"})

\* the k-th token_iter event reports k output tokens, and a final event
\* reports the number of token_iter events yielded before it
RunningCounts ==
    \A i \in DOMAIN yielded :
        /\ yielded[i].type_ = "token_iter" =>
              yielded[i].output_token_count = ItersBefore(i) + 1
        /\ yielded[i].type_ = "final" =>
              yielded[i].output_token_count = ItersBefore(i)

\* a pass of the loop over a chunk whose token delta d is at least 1 yields
\* d token_iter events with the text of the chunk, and nothing else
FanOutStep ==
    (mpc = "stream" /\ line_no' = line_no + 1) =>
        LET line == post_response.content[line_no + 1]
            running == ItersBefore(Len(yielded) + 1)
            d == IF line.usage = "object" /\ line.completion_tokens # None
                 THEN line.completion_tokens - running
                 ELSE 1
        IN  (line.kind = "json" /\ d >= 1) =>
                /\ Len(yielded') = Len(yielded) + d
                /\ SubSeq(yielded', 1, Len(yielded)) = yielded
                /\ \A k \in 1 .. d :
                      /\ yielded'[Len(yielded) + k].type_ = "token_iter"
                      /\ yielded'[Len(yielded) + k].add_token = line.text

\* C19: a chunk with token delta d >= 1 yields exactly d token_iter events
\* with the chunk's text, the k-th token_iter event of the stream reports
\* running output count k, and the final event reports the number of
\* token_iter events yielded.
C19_FanOutPerToken == []RunningCounts /\ [][FanOutStep]_vars

\* C19 witness: a chunk without usage, a chunk of two more tokens and [DONE]
C19_Witness ==
    /\ mpc = "returned"
    /\ post_response.content =
          <<Chunk("a", "missing", None), Chunk("b", "object", 3), DoneLine>>
    /\ yielded = <<GenerativeResponse("token_iter", "a", 1),
                   GenerativeResponse("token_iter", "b", 2),
                   GenerativeResponse("token_iter", "b", 3),
                   GenerativeResponse("final", "", 3)>>

\* whether the loop omits this chunk: its token delta is below 1
Omitted(line, total) ==
    /\ line.kind = "json"
    /\ ~LineRaises(line)
    /\ TokenCount(DeepGet(line), total) < 1

RECURSIVE KeptFrom(_, _, _)
\* the lines of `content` from line i on without the chunks the loop omits
KeptFrom(content, i, total) ==
    IF i > Len(content)
    THEN <<>>
    ELSE LET rest == KeptFrom(content, i + 1, LineTotal(content[i], total))
         IN  IF Omitted(content[i], total) THEN rest ELSE <<content[i]>> \o rest

\* the events yielded and the running total are those of the lines read so
\* far with the omitted chunks removed
SameWithoutOmitted ==
    mpc \in {"stream", "returned"} =>
        LET kept == KeptFrom(SubSeq(post_response.content, 1, line_no), 1, 0)
            run == StreamFrom(kept, 1, 0)
        IN  yielded = run.events /\ total_usage = run.total

\* the pass of the loop over an omitted chunk yields nothing and leaves the
\* running total as it is
OmittedStep ==
    (/\ mpc = "stream"
     /\ line_no' = line_no + 1
     /\ Omitted(post_response.content[line_no + 1], total_usage))
    => (yielded' = yielded /\ total_usage' = total_usage)

\* C20: removing from a stream every chunk whose token delta is below 1
\* changes neither the events yielded nor the final output token count; such
\* a chunk yields no token_iter event and leaves the running total unchanged.
C20_DroppingOmittedChunks == []SameWithoutOmitted /\ [][OmittedStep]_vars

\* C20 witness: a chunk whose usage went down, between two chunks that count
C20_Witness ==
    /\ mpc = "returned"
    /\ post_response.content =
          <<Chunk("a", "object", 2), Chunk("b", "object", 1), Chunk("a", "object", 3)>>
    /\ Len(yielded) = 3
    /\ total_usage = 3

\* the positions of the final events yielded
FinalEvents == {i \in DOMAIN yielded : yielded[i].type_ = "final"}

\* whether the response has a [DONE] line
HasDone ==
    \E i \in DOMAIN post_response.content : post_response.content[i] = DoneLine

\* C21: nothing is yielded after a final event, whatever lines follow
\* [DONE], and a stream with a [DONE] line that was read without an error
\* has yielded exactly one final event.
C21_DoneTerminates ==
    /\ \A i \in FinalEvents : i = Len(yielded)
    /\ (mpc = "returned" /\ HasDone) => Cardinality(FinalEvents) = 1

\* whether a status is in the 2xx range
Is2xx(status) == 200 <= status /\ status <= 299

\* C22: once the status has been tested, a status outside the 2xx range has
\* made the request fail with nothing yielded, and a 2xx status has not: the
\* lines of the response are parsed as a token stream.
C22_FailsExactlyOutside2xx ==
    mpc # "post" =>
        /\ ~Is2xx(post_response.status) => (mpc = "raised" /\ yielded = <<>>)
        /\ (/\ Is2xx(post_response.status)
            /\ \A i \in DOMAIN post_response.content :
                  ~LineRaises(post_response.content[i]))
           => mpc \in {"stream", "returned"}


\* ---------------------------------------------------------------------------
\* Benchmarker.run (benchmark/benchmarker.py)

MaxStrategies == 2
MaxBenchRequests == 1

\* Profile.next_strategy(): the strategy after the completed ones, None at the end
NextStrategy(p) ==
    IF p.completed_strategies >= Len(p.strategy_types)
    THEN "none"
    ELSE p.strategy_types[p.completed_strategies + 1]

\* Profile.completed_strategy(average_rate, average_concurrency)
CompletedStrategy(p) ==
    [p EXCEPT !.completed_strategies = p.completed_strategies + 1]

\* a result of scheduler.run; request results are SchedulerRequestResult
SchedulerRunResult(type_, request) == [type_ |-> type_, request |-> request]

IsSchedulerRequestResult(result) ==
    result.type_ \in {"request_scheduled", "request_start", "request_complete"}

\* the n-th request result of a run: each request is scheduled, started, completed
RequestResult(n) ==
    SchedulerRunResult(
        CASE n % 3 = 1 -> "request_scheduled"
          [] n % 3 = 2 -> "request_start"
          [] OTHER     -> "request_complete",
        (n + 2) \div 3)

RequestResults(n) == [i \in 1..n |-> RequestResult(i)]

\* what one scheduler.run call yields: a whole run, or a run cut short by an
\* exception
SchedulerRuns(strategy) ==
    {[scheduling_strategy |-> strategy,
      results |-> <<SchedulerRunResult("run_start", None)>>
                    \o RequestResults(3 * k)
                    \o <<SchedulerRunResult("run_complete", None)>>,
      raises |-> FALSE] : k \in 0..MaxBenchRequests}
    \cup {[scheduling_strategy |-> strategy,
           results |-> <<SchedulerRunResult("run_start", None)>> \o RequestResults(n),
           raises |-> TRUE] : n \in 0..(3 * MaxBenchRequests)}
    \cup {[scheduling_strategy |-> strategy, results |-> <<>>, raises |-> TRUE]}

BenchmarkerResultUnindexed(type_, index, strategy, result) ==
    [type_ |-> type_, current_index |-> 0 - 1, current_strategy |-> strategy,
     current_result |-> result]

BenchmarkerResult(type_, index, strategy, result) ==
    [type_ |-> type_, current_index |-> index, current_strategy |-> strategy,
     current_result |-> result]

Call(name, index, result) ==
    [name |-> name, strategy_index |-> index, result |-> result]

\* the yield of run_start before the loop
BenchRunStart ==
    /\ bpc = "start"
    /\ outer' = Append(outer, BenchmarkerResult("run_start", current_index, "none", None))
    /\ bpc' = "while"
    /\ UNCHANGED <<profile, current_index, scheduler_run, calls>>
    /\ UNCHANGED scheduler_side

\* the calls that end one strategy: compile, then completed_strategy
CompileOnlyCalls(index) == <<Call("compile", index, None)>>

CompileCalls(index) ==
    <<Call("compile", index, None), Call("completed_strategy", index, None)>>

\* the while test: ask the profile, then either start the strategy's run or
\* leave the loop
BenchNextStrategy ==
    /\ bpc = "while"
    /\ IF NextStrategy(profile) = "none"
       THEN /\ bpc' = "after"
            /\ calls' = Append(calls, Call("next_strategy", current_index, None))
            /\ UNCHANGED <<current_index, scheduler_run>>
       ELSE /\ current_index' = current_index + 1
            /\ calls' = calls \o <<Call("next_strategy", current_index, None),
                                   Call("create_benchmark_aggregator",
                                        current_index + 1, None)>>
            /\ scheduler_run' \in SchedulerRuns(NextStrategy(profile))
            /\ bpc' = "for"
    /\ UNCHANGED <<profile, outer>>
    /\ UNCHANGED scheduler_side

\* the body of the async for, for one result of the scheduler
BenchResult ==
    /\ bpc = "for"
    /\ scheduler_run.results # <<>>
    /\ LET result == Head(scheduler_run.results)
           received == Call("scheduler_result", current_index, result)
       IN
       /\ scheduler_run' = [scheduler_run EXCEPT !.results = Tail(@)]
       /\ CASE result.type_ = "run_start" ->
                 /\ outer' = Append(outer,
                        BenchmarkerResult("scheduler_start", current_index,
                                          scheduler_run.scheduling_strategy, None))
                 /\ calls' = Append(calls, received)
                 /\ UNCHANGED bpc
            [] result.type_ = "run_complete" ->
                 /\ outer' = Append(outer,
                        BenchmarkerResult("scheduler_complete", current_index,
                                          scheduler_run.scheduling_strategy, None))
                 /\ calls' = Append(calls, received)
                 /\ UNCHANGED bpc
            [] OTHER ->
                 IF IsSchedulerRequestResult(result)
                 THEN /\ calls' = calls \o <<received,
                                              Call("add_result", current_index, result)>>
                      /\ outer' = Append(outer,
                             BenchmarkerResult("scheduler_update", current_index,
                                               scheduler_run.scheduling_strategy,
                                               result))
                      /\ UNCHANGED bpc
                 ELSE /\ bpc' = "raised"
                      /\ calls' = Append(calls, received)
                      /\ UNCHANGED outer
    /\ UNCHANGED <<profile, current_index>>
    /\ UNCHANGED scheduler_side

\* the scheduler's run raises: the exception leaves Benchmarker.run
BenchSchedulerRaises ==
    /\ bpc = "for"
    /\ scheduler_run.results = <<>>
    /\ scheduler_run.raises
    /\ bpc' = "raised"
    /\ UNCHANGED <<profile, current_index, scheduler_run, outer, calls>>
    /\ UNCHANGED scheduler_side

\* after the async for: compile, completed_strategy, yield benchmark_compiled
BenchCompile ==
    /\ bpc = "for"
    /\ scheduler_run.results = <<>>
    /\ ~scheduler_run.raises
    /\ calls' = calls \o CompileCalls(current_index)
    /\ profile' = CompletedStrategy(profile)
    /\ outer' = Append(outer,
           BenchmarkerResult("benchmark_compiled", current_index,
                             scheduler_run.scheduling_strategy, None))
    /\ bpc' = "while"
    /\ UNCHANGED <<current_index, scheduler_run>>
    /\ UNCHANGED scheduler_side

\* the yield of run_complete after the loop
BenchRunComplete ==
    /\ bpc = "after"
    /\ outer' = Append(outer, BenchmarkerResult("run_complete", current_index, "none", None))
    /\ bpc' = "returned"
    /\ UNCHANGED <<profile, current_index, scheduler_run, calls>>
    /\ UNCHANGED scheduler_side

StrategyTypes == {"synchronous", "throughput", "constant"}

Profiles ==
    {[strategy_types |-> types, completed_strategies |-> 0] :
        types \in UNION {[1..n -> StrategyTypes] : n \in 0..MaxStrategies}}

BenchInit ==
    /\ SchedulerNew({Config(ThroughputStrategy, None, None, ListLoader(1), 2, None)})
    /\ BackendIdle
    /\ OthersIdle
    /\ bpc = "start"
    /\ profile \in Profiles
    /\ current_index = 0 - 1
    /\ scheduler_run = NoSchedulerRun
    /\ outer = <<>>
    /\ calls = <<>>

BenchNext ==
    \/ BenchRunStart
    \/ BenchNextStrategy
    \/ BenchResult
    \/ BenchSchedulerRaises
    \/ BenchCompile
    \/ BenchRunComplete

BenchSpec == BenchInit /\ [][BenchNext]_vars


\* ---------------------------------------------------------------------------
\* Claims about Benchmarker.run

StrategyEvents == {"scheduler_start", "scheduler_update", "scheduler_complete",
                   "benchmark_compiled"}

\* b may come right after a in the outer stream
OuterFollows(a, b) ==
    CASE a.type_ = "run_start" ->
            \/ b.type_ = "scheduler_start" /\ b.current_index = 0
            \/ b.type_ = "run_complete"
      [] a.type_ \in {"scheduler_start", "scheduler_update"} ->
            /\ b.type_ \in {"scheduler_update", "scheduler_complete"}
            /\ b.current_index = a.current_index
      [] a.type_ = "scheduler_complete" ->
            /\ b.type_ = "benchmark_compiled"
            /\ b.current_index = a.current_index
      [] a.type_ = "benchmark_compiled" ->
            \/ b.type_ = "scheduler_start" /\ b.current_index = a.current_index + 1
            \/ b.type_ = "run_complete"
      [] OTHER -> FALSE

OuterCount(type_) == Cardinality({i \in DOMAIN outer : outer[i].type_ = type_})

\* C23: the outer stream is one run_start, then per strategy of the profile, in
\* order, one scheduler_start, any number of scheduler_update, one
\* scheduler_complete and one benchmark_compiled, then one run_complete; the
\* events of the i-th strategy carry current_index i and that strategy, and
\* the events of two strategies never interleave.
C23_OuterStreamShape ==
    /\ outer # <<>> => outer[1].type_ = "run_start"
    /\ \A i \in 1..(Len(outer) - 1) : OuterFollows(outer[i], outer[i + 1])
    /\ \A i \in DOMAIN outer :
          outer[i].type_ \in StrategyEvents =>
             /\ outer[i].current_index \in 0..(Len(profile.strategy_types) - 1)
             /\ outer[i].current_strategy
                   = profile.strategy_types[outer[i].current_index + 1]
    /\ bpc = "returned" =>
          /\ outer[Len(outer)].type_ = "run_complete"
          /\ OuterCount("benchmark_compiled") = Len(profile.strategy_types)

C23_Witness ==
    /\ bpc = "returned"
    /\ Len(profile.strategy_types) = 2
    /\ profile.strategy_types[1] # profile.strategy_types[2]
    /\ \A index \in {0, 1} :
          \E i \in DOMAIN outer : /\ outer[i].type_ = "scheduler_update"
                                  /\ outer[i].current_index = index

CallsOf(name, index) ==
    {k \in DOMAIN calls : calls[k].name = name /\ calls[k].strategy_index = index}

RequestResultsOf(index) ==
    {k \in CallsOf("scheduler_result", index) :
        IsSchedulerRequestResult(calls[k].result)}

\* the strategy with this index has run to its end
StrategyOver(index) ==
    \/ index < current_index
    \/ index = current_index /\ bpc \in {"while", "after", "returned"}

\* C24: per strategy, every request result of the scheduler goes to
\* aggregator.add_result exactly once, aggregator.compile() is called exactly
\* once after all of them, and profile.completed_strategy exactly once after
\* that and before profile.next_strategy is asked for the following strategy.
C24_AggregateCompileComplete ==
    \A index \in 0..current_index :
       /\ \A k \in RequestResultsOf(index) :
             /\ k + 1 \in CallsOf("add_result", index)
             /\ calls[k + 1].result = calls[k].result
       /\ Cardinality(CallsOf("add_result", index))
             = Cardinality(RequestResultsOf(index))
       /\ Cardinality(CallsOf("compile", index)) = (IF StrategyOver(index) THEN 1 ELSE 0)
       /\ Cardinality(CallsOf("completed_strategy", index))
             = (IF StrategyOver(index) THEN 1 ELSE 0)
       /\ \A c \in CallsOf("compile", index) :
             /\ \A k \in CallsOf("scheduler_result", index)
                         \cup CallsOf("add_result", index) : k < c
             /\ \A d \in CallsOf("completed_strategy", index) : c < d
       /\ \A n \in CallsOf("next_strategy", index) :
             \E d \in CallsOf("completed_strategy", index) : d < n

C24_Witness ==
    /\ bpc = "returned"
    /\ current_index = 1
    /\ \A index \in {0, 1} : CallsOf("add_result", index) # {}


\* ---------------------------------------------------------------------------
\* Claims about the worker processes' concurrency cap and termination

\* C25: an async worker takes an envelope off the requests queue only when it
\* holds a free permit; it never holds a dequeued envelope while it waits for
\* a permit.
C25_DequeueOnlyWithPermit ==
    \A p \in Processes : wpc[p] # "acquire" /\ held[p] = <<>>

\* the quotient rounded up
CeilDiv(a, b) == (a + b - 1) \div b

\* C26: each async worker's semaphore has ceil(total in flight / processes)
\* permits, and at least one.
C26_CeilPerProcessCap ==
    (/\ spc \notin {"new", "init", "direct"}
     /\ cfg.strategy.processing_mode = "async"
     /\ NumProcessingRequests(cfg) # None) =>
        \A p \in Processes :
           (wpc[p] = "poll" /\ tasks[p] = <<>>) =>
              pending[p] = Max(1, CeilDiv(NumProcessingRequests(cfg),
                                          NumProcesses(cfg)))


\* ---------------------------------------------------------------------------
\* _worker_process_async called on a requests queue of its own

MaxWorkerQueue == 2

\* the envelopes on the queue, then one stop signal per worker process
WorkerQueue(n, processes) ==
    [i \in 1..n |-> Envelope(i, NegInf, Inf, 0)]
    \o [i \in 1..processes |-> StopSignal]

WorkerInit ==
    /\ BackendIdle
    /\ BenchmarkerIdle
    /\ OthersIdle
    /\ \E n \in 1..MaxWorkerQueue, processes \in 1..2, max_concurrency \in 0..2 :
          /\ cfg = Config(ThroughputStrategy, None, None, GeneratorLoader(n),
                          processes + 1, max_concurrency)
          /\ requests_queue = WorkerQueue(n, processes)
          /\ wpc = [p \in 0..(processes - 1) |-> "poll"]
          /\ held = [p \in 0..(processes - 1) |-> <<>>]
          /\ tasks = [p \in 0..(processes - 1) |-> <<>>]
          /\ pending = [p \in 0..(processes - 1) |-> NewSemaphore(max_concurrency)]
          /\ stops_sent = processes
    /\ now = 0
    /\ spc = "direct"
    /\ requests_iter = None
    /\ times_iter = [t0 |-> None, k |-> 0]
    /\ run_info = NoRunInfo
    /\ queue_max = 0
    /\ responses_queue = <<>>
    /\ events = [r \in 1 .. MaxRequests |-> <<>>]
    /\ run_events = <<>>
    /\ dequeued = <<>>
    /\ warnings = <<>>

WorkerNext ==
    \/ \E p \in Processes : WorkerGet(p)
    \/ \E p \in Processes : WorkerAcquire(p)
    \/ \E p \in Processes : \E i \in DOMAIN tasks[p] : TaskScheduled(p, i)
    \/ \E p \in Processes : \E i \in DOMAIN tasks[p] : TaskStart(p, i)
    \/ \E p \in Processes : \E i \in DOMAIN tasks[p] : TaskComplete(p, i)

WorkerSpec == WorkerInit /\ [][WorkerNext]_vars

\* the requests for which a worker has put a response of this type
ResponsesPut(type_) ==
    {responses_queue[i].request :
        i \in {j \in DOMAIN responses_queue : responses_queue[j].type_ = type_}}

Counters == {"created_requests", "queued_requests", "scheduled_requests",
             "processing_requests", "completed_requests"}

\* what a response of this type takes from and adds to
TransferFrom(type_) ==
    CASE type_ = "request_scheduled" -> "queued_requests"
      [] type_ = "request_start" -> "scheduled_requests"
      [] type_ = "request_complete" -> "processing_requests"

TransferTo(type_) ==
    CASE type_ = "request_scheduled" -> "scheduled_requests"
      [] type_ = "request_start" -> "processing_requests"
      [] type_ = "request_complete" -> "completed_requests"

\* the step that takes a response from the responses queue moves one request
\* from one counter to the next and touches nothing else of run_info
OneTransfer ==
    (spc = "poll" /\ spc' = "produce" /\ responses_queue # <<>>) =>
        LET type_ == Head(responses_queue).type_ IN
        /\ DOMAIN run_info' = DOMAIN run_info
        /\ \A f \in DOMAIN run_info :
              run_info'[f] = CASE f = TransferFrom(type_) -> run_info[f] - 1
                               [] f = TransferTo(type_) -> run_info[f] + 1
                               [] OTHER -> run_info[f]

NeverDecrease ==
    spc \notin {"new", "init"} =>
        /\ run_info'.created_requests >= run_info.created_requests
        /\ run_info'.completed_requests >= run_info.completed_requests

\* C28: each response taken from the responses queue applies exactly one
\* counter transfer and leaves every other counter as it was; created_requests
\* and completed_requests never decrease during a run.
C28_OneTransferPerResponse == [][OneTransfer /\ NeverDecrease]_vars

C28_Witness ==
    /\ run_info.completed_requests >= 2
    /\ run_info.processing_requests = 0
    /\ run_info.created_requests = run_info.completed_requests


\* runs of Schedulers constructed with and without num_processes, on one to
\* three CPUs
ProcessesConfigs ==
    {WithNumProcesses(Config(strategy, None, None, GeneratorLoader(2), cpu_count, 1),
                      num_processes) :
        strategy \in {SynchronousStrategy, ConcurrentStrategy(2), ThroughputStrategy},
        cpu_count \in 1..3,
        num_processes \in {None, 1, 2}}

ProcessesInit == InitWith(ProcessesConfigs)

ProcessesSpec == ProcessesInit /\ [][RunNext]_vars

\* the number of worker processes a run is to start
ProcessesWanted(c) ==
    IF c.strategy.processes_limit # None
    THEN c.strategy.processes_limit
    ELSE IF c.num_processes # None
         THEN c.num_processes
         ELSE Min(Max(1, c.cpu_count - 1), c.max_worker_processes)

\* C29: a run starts as many worker processes as the strategy's processes_limit
\* says, else as the num_processes given to the Scheduler, else
\* min(max(1, CPU count - 1), max_worker_processes), and at least one.
C29_ProcessCount ==
    spc \notin {"new", "init", "error", "direct"} =>
        /\ Cardinality(Processes) = ProcessesWanted(cfg)
        /\ run_info.processes = ProcessesWanted(cfg)
        /\ run_info.processes >= 1


\* max_number or infinity
NumberLimit(c) == IF c.max_number = None \/ c.max_number = 0 THEN Inf ELSE c.max_number

\* the request loader has a len()
HasLength(c) == c.request_loader.kind = "list"

RunSetUp == spc \in {"produce", "poll", "stopping", "unwind", "returned"}

QueuedRequestsLimit(c) ==
    IF c.strategy.queued_requests_limit # None
    THEN c.strategy.queued_requests_limit
    ELSE NumProcessingRequests(c) + NumProcesses(c)

\* _stop_processes has a None left to put
StopPending == spc = "stopping" /\ stops_sent < run_info.processes

\* C31: the requests queue never holds more than queued_requests_limit
\* envelopes (by default the total in-flight limit plus the number of
\* processes); the producer puts only into a queue that is not full, and the
\* put of a None at shutdown never finds the queue full, so it cannot block.
C31_QueueBounded ==
    RunSetUp =>
        /\ queue_max = QueuedRequestsLimit(cfg)
        /\ Len(requests_queue) <= queue_max
        /\ StopPending => Len(requests_queue) < queue_max

C31_Witness ==
    /\ spc \in {"produce", "poll"}
    /\ queue_max >= 2
    /\ Len(requests_queue) = queue_max
    /\ \A i \in DOMAIN requests_queue : ~requests_queue[i].stop

C31_WitnessStops ==
    /\ spc = "stopping"
    /\ run_info.processes = 2
    /\ stops_sent = 2
    /\ Len(requests_queue) = 2


\* ---------------------------------------------------------------------------
\* Claims about the run setup

\* neither limit is set and the request loader has no len()
Unlimited(c) ==
    /\ c.max_number = None
    /\ c.max_duration = None
    /\ ~HasLength(c)

\* C32: when neither max_number nor max_duration is set and the request
\* loader has no finite length, run setup logs a warning and the run proceeds.
C32_WarnsWhenUnlimited ==
    (RunSetUp /\ Unlimited(cfg)) => warnings # <<>>


\* ---------------------------------------------------------------------------
\* Claims about the backends' token counts and events

\* the line carries no usage.completion_tokens value
NoCompletionTokens(line) ==
    /\ line.kind = "json"
    /\ \/ line.usage \in {"missing", "null"}
       \/ line.usage = "object" /\ line.completion_tokens = None

\* the pass of the loop for a chunk without a completion_tokens value yields
\* one token_iter event, adds one to the running total and does not raise
NoUsageStep ==
    (/\ mpc = "stream"
     /\ line_no < Len(post_response.content)
     /\ NoCompletionTokens(post_response.content[line_no + 1])) =>
        /\ mpc' = "stream"
        /\ total_usage' = total_usage + 1
        /\ Len(yielded') = Len(yielded) + 1
        /\ yielded'[Len(yielded')].type_ = "token_iter"

\* C33: for a chunk that carries no usage.completion_tokens value (usage key
\* missing, usage null, or completion_tokens missing) the token delta is 1:
\* one iter event, the running total grows by 1, the request does not fail.
C33_NoUsageCountsOne == [][NoUsageStep]_vars


\* C35: every backend request stream emits a start event as its first event,
\* before anything else; here for the streaming backend's make_request.
C35_StartIsFirstEvent ==
    yielded # <<>> => yielded[1].type_ = "start"


(***************************************************************************)
(* C36: the stop signals follow the work.                                  *)
(***************************************************************************)
\* a stop signal has been put on the requests queue
StopEnqueued == stops_sent > 0

\* worker p has a request in flight: a task of its own, or an envelope it took
\* and holds while it waits for a permit
InFlight(p) == tasks[p] # <<>> \/ held[p] # <<>>

\* the requests queue holds no data envelope
NoDataQueued == \A i \in DOMAIN requests_queue : requests_queue[i].stop

\* C36: at the start of shutdown (the loop has been left by its exit test) the
\* requests queue is empty and every created request has completed; from there
\* on no worker has a request in flight, so a worker that takes a stop signal
\* has none, and the queue holds stop signals only, so no data envelope is
\* dequeued after a stop signal was put
C36_StopsFollowWork ==
    /\ (spc = "stopping" /\ ~StopEnqueued) =>
           /\ requests_queue = <<>>
           /\ run_info.completed_requests = run_info.created_requests
    /\ (spc = "stopping" \/ StopEnqueued) =>
           /\ \A p \in Processes : ~InFlight(p)
           /\ NoDataQueued
           /\ run_info.completed_requests = run_info.created_requests

\* a worker has taken its stop signal after a run of two requests or more
C36_Witness ==
    /\ StopEnqueued
    /\ \E p \in Processes : wpc[p] = "returned"
    /\ run_info.created_requests >= 2


(***************************************************************************)
(* C37: the per-process cap of an async worker.                            *)
(***************************************************************************)
\* the run is in async mode with a per-process cap of one or more
AsyncCapped ==
    /\ RunSetUp
    /\ cfg.strategy.processing_mode = "async"
    /\ NumProcessingRequestsPerProcess(cfg) >= 1

\* the tasks of worker p between request_scheduled and request_complete
Underway(p) == {i \in DOMAIN tasks[p] : tasks[p][i].stage \in {"scheduled", "resolving"}}

\* C37: in async mode with a per-process cap c >= 1 every task of a running
\* worker holds one permit from its creation (before request_scheduled, through
\* the wait for the start time) to its completion, where the permit is returned
\* once: free permits plus tasks is always c.  So a worker has at most c
\* requests between request_scheduled and request_complete, and the scheduler's
\* scheduled_requests + processing_requests is at most c times the processes.
C37_PermitHeldPerTask ==
    AsyncCapped =>
        LET c == NumProcessingRequestsPerProcess(cfg)
        IN  /\ \A p \in Processes :
                 /\ pending[p] # None /\ 0 <= pending[p] /\ pending[p] <= c
                 /\ Cardinality(Underway(p)) <= Len(tasks[p])
                 /\ Len(tasks[p]) <= c
                 /\ wpc[p] \in {"poll", "acquire"} =>
                        pending[p] + Len(tasks[p]) = c
            /\ run_info.scheduled_requests + run_info.processing_requests
                 <= c * run_info.processes

\* a worker with a cap of two has both permits out, and the scheduler counts
\* as many requests scheduled or processing as there are permits
C37_Witness ==
    /\ AsyncCapped
    /\ NumProcessingRequestsPerProcess(cfg) = 2
    /\ \E p \in Processes : pending[p] = 0 /\ Cardinality(Underway(p)) = 2
    /\ run_info.scheduled_requests + run_info.processing_requests
         = 2 * run_info.processes


(***************************************************************************)
(* C38: the run counters stay in range.                                    *)
(***************************************************************************)
\* C38: queued_requests, scheduled_requests, processing_requests and
\* completed_requests are never negative, and completed_requests never
\* exceeds created_requests.
C38_CountersInRange ==
    /\ run_info.queued_requests >= 0
    /\ run_info.scheduled_requests >= 0
    /\ run_info.processing_requests >= 0
    /\ run_info.completed_requests >= 0
    /\ run_info.completed_requests <= run_info.created_requests

\* every counter but completed_requests is back at zero after two requests:
\* each decrement has been applied and completed has caught up with created
C38_Witness ==
    /\ run_info.created_requests >= 2
    /\ run_info.completed_requests = run_info.created_requests
    /\ run_info.queued_requests = 0
    /\ run_info.scheduled_requests = 0
    /\ run_info.processing_requests = 0


(***************************************************************************)
(* C39: the producer pairs requests and timestamps and drops neither.      *)
(***************************************************************************)
\* the data envelopes on the requests queue, in queue order
DataQueued == SelectSeq(requests_queue, LAMBDA env : ~env.stop)

\* the requests put on the requests queue so far, in the order they were put:
\* those the workers have taken, then those still queued
Enqueued ==
    dequeued \o [j \in DOMAIN DataQueued |-> DataQueued[j].request]

\* while the producer is live, every request and every timestamp drawn has
\* gone into an envelope; the requests enqueued are the loader's first
\* created_requests items in order; the i-th of them carries the i-th timestamp
Paired ==
    (RunSetUp /\ Recording) =>
        /\ requests_iter # None =>
              /\ requests_iter = run_info.created_requests
              /\ cfg.strategy.type_ = "constant" =>
                    times_iter.k = run_info.created_requests
        /\ Enqueued = [i \in 1 .. run_info.created_requests |->
                          LoaderItem(cfg.request_loader, i)]
        /\ \A j \in DOMAIN DataQueued :
              DataQueued[j].start_time =
                 RequestTime(cfg.strategy, times_iter.t0, DataQueued[j].request - 1)

\* an exhausted producer stays exhausted and creates nothing
ExhaustedStep ==
    requests_iter = None =>
        /\ requests_iter' = None
        /\ run_info'.created_requests = run_info.created_requests

Given(n) == n # None

\* the body, the request's keyword arguments and the keyword arguments of
\* the call, merged in that order: what the payload holds before model and the
\* token limit are written
MergedInput ==
    Update(Update(OrEmpty(completions_call.body),
                  OrEmpty(completions_call.orig_kwargs)),
           completions_call.kwargs)

\* the payload returned, where IsGiven says which limits count as given:
\* model is the backend's; max_tokens and max_completion_tokens are the
\* request-level limit if given, else the instance-level one if given, else
\* left as they came in; stop is null and ignore_eos true if the request-level
\* limit is given, else both are left as they came in; prompt is passed on
PayloadAsClaimed(IsGiven(_)) ==
    LET request_level == completions_call.max_output_tokens
        instance_level == completions_call.self.max_output_tokens
        limit == IF IsGiven(request_level) THEN request_level ELSE instance_level
        in == MergedInput
        out == payload.dict
    IN  /\ out["model"] = completions_call.self.model
        /\ out["prompt"] = in["prompt"]
        /\ IF IsGiven(request_level) \/ IsGiven(instance_level)
           THEN /\ out["max_tokens"] = limit
                /\ out["max_completion_tokens"] = limit
           ELSE /\ out["max_tokens"] = in["max_tokens"]
                /\ out["max_completion_tokens"] = in["max_completion_tokens"]
        /\ IF IsGiven(request_level)
           THEN out["stop"] = None /\ out["ignore_eos"] = PyTrue
           ELSE out["stop"] = in["stop"] /\ out["ignore_eos"] = in["ignore_eos"]

\* C34 as stated: a limit is given when it is not None
C34_PayloadAsGiven == payload.given => PayloadAsClaimed(Given)

\* C34: in the completions payload max_tokens and max_completion_tokens are
\* both the request-level max_output_tokens if that is given and not zero,
\* else the instance-level value if that is given and not zero, else they are
\* not written; stop = null and ignore_eos = true are written if and only if
\* the request-level max_output_tokens is given and not zero; model is always
\* the backend's model, whatever body and keyword arguments say.
C34_PayloadAsNonZero == payload.given => PayloadAsClaimed(Truthy)

\* a payload for a request-level limit that differs from the instance-level
\* one, from a body that names another model and brings stop words
C34_Witness ==
    /\ payload.given
    /\ completions_call.max_output_tokens >= 1
    /\ completions_call.self.max_output_tokens >= 1
    /\ completions_call.max_output_tokens
         # completions_call.self.max_output_tokens
    /\ MergedInput["model"] = OtherModel
    /\ MergedInput["stop"] = StopWords
    /\ payload.dict["stop"] = None

\* a payload for the instance-level limit alone: no stop, no ignore_eos written
C34_WitnessInstance ==
    /\ payload.given
    /\ completions_call.max_output_tokens = None
    /\ completions_call.self.max_output_tokens >= 1
    /\ payload.dict["max_tokens"] = completions_call.self.max_output_tokens
    /\ payload.dict["ignore_eos"] = Absent


(***************************************************************************)
(* C40: FileRequestGenerator serves its entries round robin.               *)
(***************************************************************************)
\* a line that parses: a JSON object with the four keys and token counts
\* that int() takes
Parses(line) ==
    /\ line.kind = "object"
    /\ line.index # Absent
    /\ line.tok_input_length.kind \in {"int", "float"}
    /\ line.tok_output_length.kind \in {"int", "float"}

\* the positions in the file of the lines after the first that parse, in
\* file order
ParsedLines ==
    LET after == {i \in 2 .. Len(file_lines) : Parses(file_lines[i])}
        RECURSIVE Sorted(_)
        Sorted(set) ==
            IF set = {} THEN <<>>
            ELSE LET least == CHOOSE i \in set : \A j \in set : i <= j
                 IN  <<least>> \o Sorted(set \ {least})
    IN  Sorted(after)

\* the generator has been constructed
Constructed == generator.pc \in {"ready", "stop_iteration"}

\* C40: len() is the number of lines that parsed, the first line and the
\* malformed lines left out, and the entries are those lines in file order;
\* with n >= 1 entries the k-th create_item call (0-based) returns entry
\* k mod n, and create_item never signals exhaustion
C40_RoundRobin ==
    Constructed =>
        LET n == Len(generator.data)
        IN  /\ n = Len(ParsedLines)
            /\ \A j \in 1 .. n : generator.data[j].text = ParsedLines[j]
            /\ n >= 1 =>
                 /\ generator.pc = "ready"
                 /\ \A k \in 0 .. Len(items) - 1 :
                       items[k + 1] =
                          TextGenerationRequest(generator.data[(k % n) + 1])

\* two entries loaded from a file of three lines, and create_item called five
\* times: the entries have gone round twice and the first was served again
C40_Witness ==
    /\ Constructed
    /\ Len(file_lines) = 3
    /\ Len(generator.data) = 2
    /\ Len(items) = 5
    /\ items[5] = items[1]
    /\ items[2] # items[1]

\* one entry loaded from a file with a malformed line, served twice
C40_WitnessMalformed ==
    /\ Constructed
    /\ Len(file_lines) = 3
    /\ Len(generator.data) = 1
    /\ Len(items) = 2

====
